---- MODULE Spec2Model ----
(***************************************************************************)
(* Real-time presence and location broadcast engine of MyDosen-Backend:    *)
(* the Socket.IO manager (socketManager), the geofence classifier          *)
(* (utils/geofence) and the permission approval endpoint it reads.         *)
(*                                                                         *)
(* Time is in milliseconds, as Date.now().  Coordinates are points of an   *)
(* integer grid of half-kilometre steps; the great-circle distance       *)
(* is represented by its planar form on that grid and compared squared.    *)
(* A handler that awaits a store query is suspended at that query; the     *)
(* query executes in the step that resumes the handler.                    *)
(***************************************************************************)
EXTENDS Integers, Naturals, Sequences, FiniteSets, TLC

(***************************************************************************)
(* Bounds of the model                                                     *)
(***************************************************************************)
MaxSockets == 3
MaxLecturerSockets == 1
MaxEvents == 2
MaxTicks == 2
MaxReads == 2

(***************************************************************************)
(* Program constants                                                       *)
(***************************************************************************)
LOCATION_SAVE_THROTTLE_MS == 60000
LOCATION_LOG_THROTTLE_MS == 3600000
INACTIVITY_MS == 30000
DayMs == 86400000
SecMs == 1000

\* MASKED_LOCATION (Jakarta) on the grid, and its name
MaskedLat == -664
MaskedLong == 490
MaskedName == "Di Luar"
MASKED_LOCATION == [latitude |-> MaskedLat, longitude |-> MaskedLong, locationName |-> MaskedName]

(***************************************************************************)
(* Identities.  The role is the one carried by the verified token.         *)
(***************************************************************************)
Dosen == {"d1", "d2"}
Mahasiswa == {"m1", "m2"}
Admin == {"a1"}
Users == Dosen \cup Mahasiswa \cup Admin

role(u) == IF u \in Dosen THEN "dosen" ELSE IF u \in Mahasiswa THEN "mahasiswa" ELSE "admin"

(***************************************************************************)
(* Geofences.  A zone is [name, latitude, longitude, radius], the radius   *)
(* in grid units; the table is read in row order.                          *)
(***************************************************************************)
SeededGeofences ==
    << [name |-> "UNSRI Indralaya", latitude |-> 0, longitude |-> 0, radius |-> 5],
       [name |-> "UNSRI Palembang", latitude |-> 52, longitude |-> 18, radius |-> 3] >>

\* squared planar distance between two grid points
haversineDistanceSq(lat1, lon1, lat2, lon2) ==
    (lat2 - lat1) * (lat2 - lat1) + (lon2 - lon1) * (lon2 - lon1)

\* variant: distance < geofence.radius_km
WithinGeofence_Strict(lat, long, g) ==
    haversineDistanceSq(lat, long, g.latitude, g.longitude) < g.radius * g.radius

\* distance <= geofence.radius_km
WithinGeofence(lat, long, g) ==
    haversineDistanceSq(lat, long, g.latitude, g.longitude) <= g.radius * g.radius

MaskedResult ==
    [isInside |-> FALSE, locationName |-> MASKED_LOCATION.locationName,
     displayLat |-> MASKED_LOCATION.latitude, displayLong |-> MASKED_LOCATION.longitude]

\* the for-loop of checkGeofence from row i on: the first matching row wins
RECURSIVE GeofenceLoop(_, _, _, _)
GeofenceLoop(zones, i, lat, long) ==
    IF i > Len(zones) THEN MaskedResult
    ELSE IF WithinGeofence(lat, long, zones[i])
         THEN [isInside |-> TRUE, locationName |-> zones[i].name,
               displayLat |-> lat, displayLong |-> long]
         ELSE GeofenceLoop(zones, i + 1, lat, long)

\* variant: the catch branch keeps the raw coordinates under the masked name
checkGeofence_RawOnError(zones, lat, long, ok) ==
    IF ok THEN GeofenceLoop(zones, 1, lat, long)
    ELSE [MaskedResult EXCEPT !.displayLat = lat, !.displayLong = long]

\* variant: the matching row with the nearest centre wins
checkGeofence_Nearest(zones, lat, long, ok) ==
    LET dist(i) == haversineDistanceSq(lat, long, zones[i].latitude, zones[i].longitude)
        hits == {i \in 1..Len(zones) : WithinGeofence(lat, long, zones[i])}
    IN IF ~ok \/ hits = {} THEN MaskedResult
       ELSE LET i == CHOOSE k \in hits : \A l \in hits : dist(k) <= dist(l)
            IN [isInside |-> TRUE, locationName |-> zones[i].name,
                displayLat |-> lat, displayLong |-> long]

\* checkGeofence: ok = FALSE is a failed table read (the catch branch)
checkGeofence(zones, lat, long, ok) ==
    IF ok THEN GeofenceLoop(zones, 1, lat, long) ELSE MaskedResult

(***************************************************************************)
(* Time                                                                    *)
(***************************************************************************)
\* 22:59:59 UTC of a Wednesday (day 0 of the epoch is a Thursday): one hour
\* later is still Wednesday, two hours later is Thursday
Clock0 == (7 * DayMs) - 3601000
\* the clock advances the model takes: around the inactivity window, around
\* the save throttle, around the log throttle
PresenceSteps == {10000, 30000}
ThrottleSteps == {10000, 50000}
HistorySteps == {60000, 3540000}
TzOffsets == {0, 25200000}

\* Date.prototype.getDay(): weekday of the local date
getDay(t, tzo) == (((t + tzo) \div DayMs) + 4) % 7
\* toISOString().split('T')[0]: the UTC calendar date, as a day number
isoDate(t) == t \div DayMs
\* CURRENT_TIMESTAMP read back through new Date(s + 'Z').getTime(): whole seconds
sqlTimestamp(t) == (t \div SecMs) * SecMs


(***************************************************************************)
(* State                                                                   *)
(***************************************************************************)
VARIABLES
    clock,                \* Date.now()
    nTicks,               \* clock advances so far
    tz,                   \* the server's offset of local time from UTC
    exited,               \* process.exit was called
    reads,                \* getLocationHistory calls suspended at an await
    inserted,             \* per lecturer, the rows INSERTed INTO locations so far
    geofences,            \* table geofences, in row order
    perms,                \* table tracking_permissions: <<student, lecturer>> -> status
    locations,            \* table locations: user_id -> row
    history,              \* table location_history: set of rows
    lastSaveTimestamps,   \* Map userId -> timestamp
    onlineDosenMap,       \* Map dosenId -> Set(socketId)
    onlineUsersMap,       \* Map userId -> Set(socketId)
    socks,                \* the sockets created so far, socket id = index
    rooms,                \* adapter rooms room:dosen_<id> -> set of socket ids
    upd,                  \* update_location handlers suspended at an await
    joins,                \* join_dosen_room handlers suspended at an await
    reqs,                 \* calls of the permission controllers suspended at an await
    nEvents,              \* handlers started so far
    emitted,              \* what the last step sent to clients and wrote to the console
    statusLog,            \* per lecturer, the is_online of its io.emit('dosen_status') so far
    refused,              \* <<socket, lecturer>> whose last join was denied
    saveLog,              \* per lecturer, the sample times of the location writes performed
    failLog,              \* per lecturer, the sample times of the location writes that failed
    sampleLog             \* per update_location handler (by id), the raw sample, and
                          \* whether it was classified and the geofences could be read

vars == << clock, nTicks, tz, exited, inserted, reads, geofences, perms, locations, history, lastSaveTimestamps,
           onlineDosenMap, onlineUsersMap, socks, rooms, upd, joins, reqs, nEvents,
           emitted, statusLog, refused, saveLog, failLog, sampleLog >>

\* a Map: a function whose domain is the set of keys present
MapGet(m, k, default) == IF k \in DOMAIN m THEN m[k] ELSE default
MapSet(m, k, v) == [x \in DOMAIN m \cup {k} |-> IF x = k THEN v ELSE m[x]]
MapDelete(m, k) == [x \in DOMAIN m \ {k} |-> m[x]]
EmptyMap == [x \in {} |-> {}]

Sids == 1..Len(socks)
Connected == {s \in Sids : socks[s].connected}
ActiveConns(u) == {s \in Connected : socks[s].user = u}

isDosenOnline(dosenId) == dosenId \in DOMAIN onlineDosenMap /\ Cardinality(onlineDosenMap[dosenId]) > 0
\* variant: the map is tested for any entry, not for the user's
isUserOnline_AnyEntry(userId) == DOMAIN onlineUsersMap # {}

isUserOnline(userId) == userId \in DOMAIN onlineUsersMap /\ Cardinality(onlineUsersMap[userId]) > 0

(***************************************************************************)
(* Output of one step                                                      *)
(***************************************************************************)
Emit0 == [moved |-> {}, snap |-> {}, status |-> {}, err |-> {}, ack |-> {},
          joined |-> {}, console |-> {}, http |-> {}, auth |-> {}]

\* the locationData payload of a sample (hid: the handler that built it)
Payload(h, geo, ts) ==
    [hid |-> h.id, dosen_id |-> h.user, latitude |-> geo.displayLat,
     longitude |-> geo.displayLong, position_name |-> geo.locationName,
     is_inside |-> geo.isInside, last_updated |-> ts]

\* socket.emit: delivered only while the socket is connected
ToSocket(s, conn) == IF s \in conn THEN {s} ELSE {}

ErrorTo(s, text) == {[to |-> t, message |-> text] : t \in ToSocket(s, Connected)}

\* io.emit('dosen_status', ...) to every connected socket
StatusAll(conn, d, on) == {[to |-> t, dosen_id |-> d, is_online |-> on, global |-> TRUE] : t \in conn}

(***************************************************************************)
(* Initial state: a freshly seeded store, no connection                    *)
(***************************************************************************)
InitPerms ==
    [p \in Mahasiswa \X Dosen |->
        IF p = <<"m1", "d1">> THEN "approved"
        ELSE IF p = <<"m2", "d1">> THEN "pending" ELSE "none"]

InitStore ==
    /\ nTicks = 0
    /\ perms = InitPerms
    /\ locations = EmptyMap
    /\ history = {}
    /\ lastSaveTimestamps = EmptyMap
    /\ onlineDosenMap = EmptyMap
    /\ onlineUsersMap = EmptyMap
    /\ socks = << >>
    /\ rooms = [d \in Dosen |-> {}]
    /\ upd = {}
    /\ joins = {}
    /\ reqs = {}
    /\ nEvents = 0
    /\ emitted = Emit0
    /\ statusLog = [d \in Dosen |-> << >>]
    /\ refused = {}
    /\ saveLog = [d \in Dosen |-> << >>]
    /\ failLog = [d \in Dosen |-> {}]
    /\ sampleLog = EmptyMap
    /\ exited = FALSE
    /\ inserted = [d \in Dosen |-> 0]
    /\ reads = {}

Init ==
    /\ InitStore
    /\ clock = Clock0
    /\ tz = 0
    /\ geofences = SeededGeofences

(***************************************************************************)
(* Connection and disconnection                                            *)
(***************************************************************************)
\* sockets.add(socket.id); map.set(key, sockets)
AddSocket(m, key, s) == MapSet(m, key, MapGet(m, key, {}) \cup {s})

\* variant: the entry is deleted with any socket of the identity
RemoveSocket_DeleteEntry(m, key, s) ==
    IF key \notin DOMAIN m THEN m ELSE MapDelete(m, key)

\* variant: the entry stays when its last socket is deleted
RemoveSocket_KeepEmpty(m, key, s) ==
    IF key \notin DOMAIN m THEN m ELSE MapSet(m, key, m[key] \ {s})

\* sockets.delete(socket.id); the entry is deleted with its last socket
RemoveSocket(m, key, s) ==
    IF key \notin DOMAIN m THEN m
    ELSE IF m[key] \ {s} = {} THEN MapDelete(m, key)
    ELSE MapSet(m, key, m[key] \ {s})

\* variant: every connection counts as the first
FirstConnection_Any(dosenSockets) == Cardinality(dosenSockets) >= 1

\* dosenSockets.size === 1: this is the first connection
FirstConnection(dosenSockets) == Cardinality(dosenSockets) = 1

\* setTimeout(..., 30000) of a lecturer socket; 0 = no timer pending
\* variant: the timer is set up for every role
NewTimer_AllRoles(u) == clock + INACTIVITY_MS

\* setTimeout(..., 30000) for a lecturer's socket; no timer for the other roles
NewTimer(u) == IF role(u) = "dosen" THEN clock + INACTIVITY_MS ELSE 0

\* variant: an incoming event leaves the running timer alone
Touch_NoRestart(s) == socks

\* socket.onAny: any incoming event of a lecturer socket restarts its timer
Touch(s) == [socks EXCEPT ![s].timer = NewTimer(socks[s].user)]

\* io.on('connection') after the authentication middleware accepted the token
Connect(u) ==
    /\ ~exited
    /\ LET s == Len(socks) + 1
           conn == Connected \cup {s}
           first == role(u) = "dosen" /\ FirstConnection(AddSocket(onlineDosenMap, u, s)[u])
       IN /\ socks' = Append(socks, [user |-> u, connected |-> TRUE, timer |-> NewTimer(u)])
          /\ rooms' = IF role(u) = "dosen" THEN [rooms EXCEPT ![u] = @ \cup {s}] ELSE rooms
          /\ onlineDosenMap' = IF role(u) = "dosen" THEN AddSocket(onlineDosenMap, u, s)
                               ELSE onlineDosenMap
          /\ onlineUsersMap' = IF role(u) \in {"dosen", "mahasiswa"}
                               THEN AddSocket(onlineUsersMap, u, s)
                               ELSE onlineUsersMap
          /\ emitted' = [Emit0 EXCEPT !.status = IF first THEN StatusAll(conn, u, TRUE) ELSE {}]
          /\ statusLog' = IF first THEN [statusLog EXCEPT ![u] = Append(@, TRUE)] ELSE statusLog
    /\ UNCHANGED << clock, nTicks, tz, exited, inserted, reads, geofences, perms, locations, history,
                    lastSaveTimestamps, upd, joins, reqs, nEvents, refused, saveLog, failLog, sampleLog >>

\* handleDosenConnection called for a socket that exists already
handleDosenConnection(s) ==
    /\ role(socks[s].user) = "dosen"
    /\ LET u == socks[s].user
           first == FirstConnection(AddSocket(onlineDosenMap, u, s)[u])
       IN /\ rooms' = [rooms EXCEPT ![u] = @ \cup {s}]
          /\ onlineDosenMap' = AddSocket(onlineDosenMap, u, s)
          /\ onlineUsersMap' = AddSocket(onlineUsersMap, u, s)
          /\ emitted' = [Emit0 EXCEPT !.status = IF first THEN StatusAll(Connected, u, TRUE) ELSE {}]
          /\ statusLog' = IF first THEN [statusLog EXCEPT ![u] = Append(@, TRUE)] ELSE statusLog
    /\ UNCHANGED << clock, nTicks, tz, exited, inserted, reads, geofences, perms, locations, history,
                    lastSaveTimestamps, socks, upd, joins, reqs, nEvents, refused, saveLog, failLog, sampleLog >>

\* handleMahasiswaConnection called for a socket that exists already
handleMahasiswaConnection(s) ==
    /\ role(socks[s].user) = "mahasiswa"
    /\ onlineUsersMap' = AddSocket(onlineUsersMap, socks[s].user, s)
    /\ emitted' = Emit0
    /\ UNCHANGED << clock, nTicks, tz, exited, inserted, reads, geofences, perms, locations, history,
                    lastSaveTimestamps, onlineDosenMap, socks, rooms, upd, joins, reqs, nEvents,
                    statusLog, refused, saveLog, failLog, sampleLog >>

\* the handshakes a client makes: no token, a token jwt.verify rejects, a
\* token of a user of the table, a token of a user deleted since ("gone")
Tokens ==
    {[kind |-> k, id |-> ""] : k \in {"absent", "invalid"}}
    \cup {[kind |-> "valid", id |-> u] : u \in Users \cup {"gone"}}

\* variant: the token alone decides, the users table is not read
authenticate_TokenOnly(token, ok) ==
    IF token.kind = "absent" THEN "Authentication token required"
    ELSE IF token.kind = "invalid" THEN "Invalid authentication token"
    ELSE ""

\* the middleware: the error it passes to next(), "" when it accepts;
\* ok = FALSE is a failed read of the users table (the catch branch)
authenticate(token, ok) ==
    IF token.kind = "absent" THEN "Authentication token required"
    ELSE IF token.kind = "invalid" THEN "Invalid authentication token"
    ELSE IF ~ok THEN "Invalid authentication token"
    ELSE IF token.id \notin Users THEN "User not found"
    ELSE ""

\* a handshake: the middleware, then the connection handler if it accepted
Handshake(token, ok) ==
    IF authenticate(token, ok) = ""
    THEN Connect(token.id)
    ELSE /\ ~exited
         /\ emitted' = [Emit0 EXCEPT !.auth = {[token |-> token,
                                                 message |-> authenticate(token, ok)]}]
         /\ UNCHANGED << clock, nTicks, tz, exited, inserted, reads, geofences, perms, locations, history,
                         lastSaveTimestamps, onlineDosenMap, onlineUsersMap, socks, rooms,
                         upd, joins, reqs, nEvents, statusLog, refused, saveLog, failLog, sampleLog >>

\* variant: the timer of the socket is not cleared
handleDisconnect_KeepTimer(s, log) ==
    LET u == socks[s].user
        conn == Connected \ {s}
        inDosenMap == role(u) = "dosen" /\ u \in DOMAIN onlineDosenMap
        last == inDosenMap /\ u \notin DOMAIN RemoveSocket(onlineDosenMap, u, s)
    IN /\ socks' = [socks EXCEPT ![s].connected = FALSE]
       /\ rooms' = [d \in Dosen |-> rooms[d] \ {s}]
       /\ onlineUsersMap' = RemoveSocket(onlineUsersMap, u, s)
       /\ onlineDosenMap' = IF role(u) = "dosen" THEN RemoveSocket(onlineDosenMap, u, s)
                            ELSE onlineDosenMap
       /\ emitted' = [Emit0 EXCEPT !.status = IF last THEN StatusAll(conn, u, FALSE) ELSE {},
                                   !.console = log]
       /\ statusLog' = IF last THEN [statusLog EXCEPT ![u] = Append(@, FALSE)] ELSE statusLog
       /\ UNCHANGED << clock, nTicks, tz, exited, inserted, reads, geofences, perms, locations, history,
                       lastSaveTimestamps, upd, joins, reqs, nEvents, refused, saveLog, failLog, sampleLog >>

\* variant: the last-save timestamp of the identity goes with the connection
handleDisconnect_ForgetWindow(s, log) ==
    LET u == socks[s].user
        conn == Connected \ {s}
        inDosenMap == role(u) = "dosen" /\ u \in DOMAIN onlineDosenMap
        last == inDosenMap /\ u \notin DOMAIN RemoveSocket(onlineDosenMap, u, s)
    IN /\ socks' = [socks EXCEPT ![s].connected = FALSE, ![s].timer = 0]
       /\ rooms' = [d \in Dosen |-> rooms[d] \ {s}]
       /\ onlineUsersMap' = RemoveSocket(onlineUsersMap, u, s)
       /\ onlineDosenMap' = IF role(u) = "dosen" THEN RemoveSocket(onlineDosenMap, u, s)
                            ELSE onlineDosenMap
       /\ lastSaveTimestamps' = IF u \in DOMAIN lastSaveTimestamps
                                THEN MapDelete(lastSaveTimestamps, u) ELSE lastSaveTimestamps
       /\ emitted' = [Emit0 EXCEPT !.status = IF last THEN StatusAll(conn, u, FALSE) ELSE {},
                                   !.console = log]
       /\ statusLog' = IF last THEN [statusLog EXCEPT ![u] = Append(@, FALSE)] ELSE statusLog
       /\ UNCHANGED << clock, nTicks, tz, exited, inserted, reads, geofences, perms, locations, history,
                       upd, joins, reqs, nEvents, refused, saveLog, failLog, sampleLog >>

\* the socket leaves every room and is removed, then handleDisconnect runs
handleDisconnect(s, log) ==
    LET u == socks[s].user
        conn == Connected \ {s}
        inDosenMap == role(u) = "dosen" /\ u \in DOMAIN onlineDosenMap
        last == inDosenMap /\ u \notin DOMAIN RemoveSocket(onlineDosenMap, u, s)
    IN /\ socks' = [socks EXCEPT ![s].connected = FALSE, ![s].timer = 0]
       /\ rooms' = [d \in Dosen |-> rooms[d] \ {s}]
       /\ onlineUsersMap' = RemoveSocket(onlineUsersMap, u, s)
       /\ onlineDosenMap' = IF role(u) = "dosen" THEN RemoveSocket(onlineDosenMap, u, s)
                            ELSE onlineDosenMap
       /\ emitted' = [Emit0 EXCEPT !.status = IF last THEN StatusAll(conn, u, FALSE) ELSE {},
                                   !.console = log]
       /\ statusLog' = IF last THEN [statusLog EXCEPT ![u] = Append(@, FALSE)] ELSE statusLog
       /\ UNCHANGED << clock, nTicks, tz, exited, inserted, reads, geofences, perms, locations, history,
                       lastSaveTimestamps, upd, joins, reqs, nEvents, refused, saveLog, failLog, sampleLog >>

\* the transport closes
Disconnect(s) ==
    /\ s \in Connected
    /\ handleDisconnect(s, {})

\* the inactivity timer fires: socket.disconnect(true)
Timeout(s) ==
    /\ s \in Connected
    /\ socks[s].timer # 0
    /\ clock >= socks[s].timer
    /\ handleDisconnect(s, {[ev |-> "inactivity", sock |-> s]})

\* time passes
Tick(d) ==
    /\ clock' = clock + d
    /\ nTicks' = nTicks + 1
    /\ emitted' = Emit0
    /\ UNCHANGED << tz, exited, inserted, reads, geofences, perms, locations, history, lastSaveTimestamps,
                    onlineDosenMap, onlineUsersMap, socks, rooms, upd, joins, reqs,
                    nEvents, statusLog, refused, saveLog, failLog, sampleLog >>

(***************************************************************************)
(* update_location                                                         *)
(***************************************************************************)
\* the samples a client sends: grid points (the centre of Indralaya, a point
\* on its radius, a point outside every zone), and payloads without numeric
\* coordinates
SamplePoints == { <<0, 0>>, <<3, 4>>, <<6, 0>> }
SampleData ==
    {[kind |-> "number", lat |-> p[1], long |-> p[2]] : p \in SamplePoints}
    \cup {[kind |-> k, lat |-> 0, long |-> 0] : k \in {"undefined", "string", "nodata"}}

\* lastLog when the day has no row yet
NoLog == [found |-> FALSE, location_name |-> "", logged_at |-> 0]

\* variant: the acknowledgment carries the coordinates as they were sent
Ack_Raw(h) ==
    {[to |-> t, success |-> TRUE,
      processed |-> Payload(h, [h.geo EXCEPT !.displayLat = h.lat, !.displayLong = h.long],
                            h.now)]
       : t \in ToSocket(h.sock, Connected)}

\* socket.emit('location_updated', ...) at the end of handleLocationUpdate
Ack(h) == {[to |-> t, success |-> TRUE, processed |-> Payload(h, h.geo, h.now)]
             : t \in ToSocket(h.sock, Connected)}

\* the handlers after handler h became h2 ("done": it returned)
Resume(set, h, h2) == IF h2.pc = "done" THEN set \ {h} ELSE (set \ {h}) \cup {h2}

\* variant: a sample the persistence throttle suppressed is not logged either
logLocationToHistory_OnlySaved(h) ==
    IF ~h.geo.isInside \/ h.pc = "geofence" THEN [h EXCEPT !.pc = "done"]
    ELSE [h EXCEPT !.pc = "histGet", !.hnow = clock]

\* variant: the query is made for a sample outside campus too
logLocationToHistory_NoSkip(h) == [h EXCEPT !.pc = "histGet", !.hnow = clock]

\* logLocationToHistory up to its first query: outside campus it returns
logLocationToHistory(h) ==
    IF ~h.geo.isInside THEN [h EXCEPT !.pc = "done"]
    ELSE [h EXCEPT !.pc = "histGet", !.hnow = clock]

HistoryConsole(h) ==
    IF ~h.geo.isInside THEN {[ev |-> "skip_outside", hid |-> h.id, dosen_id |-> h.user]} ELSE {}

\* the rest of handleLocationUpdate from step D on (h0: the handler as suspended)
StepD(h0, h, out) ==
    LET h2 == logLocationToHistory(h)
    IN /\ upd' = Resume(upd, h0, h2)
       /\ emitted' = [out EXCEPT !.console = @ \cup HistoryConsole(h),
                                 !.ack = IF h2.pc = "done" THEN Ack(h) ELSE {}]

\* variant: the typeof test is missing
validate_NoTypeCheck(data) ==
    IF data.kind = "nodata" THEN "Failed to update location"
    ELSE IF data.kind = "undefined" THEN "Latitude and longitude are required"
    ELSE ""

\* the validation of the payload: the error it emits, "" when it passes.
\* kind "nodata": no payload at all, reading data.lat throws (the catch
\* branch); "undefined": a coordinate is missing; "string": one is no number
validate(data) ==
    IF data.kind = "nodata" THEN "Failed to update location"
    ELSE IF data.kind = "undefined" THEN "Latitude and longitude are required"
    ELSE IF data.kind # "number" THEN "Invalid coordinate format"
    ELSE ""

\* the event arrives: role check and validation, up to await checkGeofence
UpdateLocation(s, data) ==
    /\ s \in Connected
    /\ socks' = Touch(s)
    /\ IF role(socks[s].user) # "dosen"
       THEN /\ emitted' = [Emit0 EXCEPT !.err = ErrorTo(s, "Only dosen can update location")]
            /\ UNCHANGED << upd, nEvents, sampleLog >>
       ELSE IF validate(data) # ""
       THEN /\ emitted' = [Emit0 EXCEPT !.err = ErrorTo(s, validate(data))]
            /\ UNCHANGED << upd, nEvents, sampleLog >>
       ELSE /\ nEvents' = nEvents + 1
            /\ upd' = upd \cup {[id |-> nEvents + 1, sock |-> s, user |-> socks[s].user,
                                 lat |-> data.lat, long |-> data.long, pc |-> "geofence",
                                 geo |-> MaskedResult, now |-> 0,
                                 existing |-> FALSE, hnow |-> 0, last |-> NoLog]}
            /\ sampleLog' = MapSet(sampleLog, nEvents + 1,
                                    [kind |-> data.kind, lat |-> data.lat, long |-> data.long,
                                     classified |-> FALSE, gok |-> TRUE])
            /\ emitted' = Emit0
    /\ UNCHANGED << clock, nTicks, tz, exited, inserted, reads, geofences, perms, locations, history,
                    lastSaveTimestamps, onlineDosenMap, onlineUsersMap, rooms, joins, reqs,
                    statusLog, refused, saveLog, failLog >>

\* variant: socket.to(room), which leaves the sender out
RoomTargetsOf_Others(h) == (rooms[h.user] \cap Connected) \ {h.sock}

\* variant: members whose permission is no longer approved are left out
RoomTargetsOf_Approved(h) ==
    {s \in rooms[h.user] \cap Connected :
        role(socks[s].user) = "mahasiswa" => perms[<<socks[s].user, h.user>>] = "approved"}

\* io.to(`room:dosen_${user.id}`): the connected sockets of the lecturer's room
RoomTargetsOf(h) == rooms[h.user] \cap Connected

\* steps A to C: classify, broadcast to the room, decide on persistence
UpdGeofence(h, ok) ==
    /\ h \in upd /\ h.pc = "geofence"
    /\ LET geo == checkGeofence(geofences, h.lat, h.long, ok)
           now == clock
           locationData == Payload(h, geo, now)
           lastSave == MapGet(lastSaveTimestamps, h.user, 0)
           h1 == [h EXCEPT !.geo = geo, !.now = now]
           out == [Emit0 EXCEPT !.moved =
                      {[to |-> t, data |-> locationData] : t \in RoomTargetsOf(h)}]
       IN IF now - lastSave >= LOCATION_SAVE_THROTTLE_MS
          THEN /\ upd' = Resume(upd, h, [h1 EXCEPT !.pc = "saveGet"])
               /\ emitted' = out
          ELSE StepD(h, h1, out)
    /\ sampleLog' = [sampleLog EXCEPT ![h.id].classified = TRUE, ![h.id].gok = ok]
    \* history only: the newest sample a joining connection got a live dosen_moved of
    /\ joins' = { IF j.dosen = h.user /\ j.sock \in RoomTargetsOf(h) /\ j.live < h.id
                  THEN [j EXCEPT !.live = h.id] ELSE j : j \in joins }
    /\ UNCHANGED << clock, nTicks, tz, exited, inserted, reads, geofences, perms, locations, history,
                    lastSaveTimestamps, onlineDosenMap, onlineUsersMap, socks, rooms,
                    reqs, nEvents, statusLog, refused, saveLog, failLog >>

SavedConsole(h) == {[ev |-> "saved", hid |-> h.id, dosen_id |-> h.user]}

\* variant: a failure of the query is not caught inside saveLocation and
\* reaches the catch of handleLocationUpdate
UpdSaveGet_Rethrow(h, ok) ==
    /\ h \in upd /\ h.pc = "saveGet"
    /\ IF ok
       THEN /\ upd' = Resume(upd, h, [h EXCEPT !.pc = "saveRun",
                                               !.existing = h.user \in DOMAIN locations])
            /\ emitted' = Emit0
       ELSE /\ upd' = upd \ {h}
            /\ emitted' = [Emit0 EXCEPT !.err = ErrorTo(h.sock, "Failed to update location")]
    /\ UNCHANGED << clock, nTicks, tz, exited, inserted, reads, geofences, perms, locations, history,
                    lastSaveTimestamps, onlineDosenMap, onlineUsersMap, socks, rooms, joins,
                    reqs, nEvents, statusLog, refused, saveLog, failLog, sampleLog >>

\* saveLocation: SELECT user_id FROM locations; a failure is caught inside
UpdSaveGet(h, ok) ==
    /\ h \in upd /\ h.pc = "saveGet"
    /\ IF ok
       THEN /\ upd' = Resume(upd, h, [h EXCEPT !.pc = "saveRun",
                                               !.existing = h.user \in DOMAIN locations])
            /\ emitted' = Emit0
            /\ UNCHANGED << lastSaveTimestamps, failLog >>
       ELSE /\ lastSaveTimestamps' = MapSet(lastSaveTimestamps, h.user, h.now)
            /\ failLog' = [failLog EXCEPT ![h.user] = @ \cup {h.now}]
            /\ StepD(h, h, [Emit0 EXCEPT !.console = SavedConsole(h)])
    /\ UNCHANGED << clock, nTicks, tz, exited, inserted, reads, geofences, perms, locations, history,
                    onlineDosenMap, onlineUsersMap, socks, rooms, joins, reqs, nEvents,
                    statusLog, refused, saveLog, sampleLog >>

LocationRow(h) ==
    [hid |-> h.id, latitude |-> h.geo.displayLat, longitude |-> h.geo.displayLong,
     position_name |-> h.geo.locationName, last_updated |-> sqlTimestamp(clock)]

\* variant: user_id is not a key of the table, an INSERT always adds a row
UpdSaveRun_NoKey(h, ok) ==
    /\ h \in upd /\ h.pc = "saveRun"
    /\ LET present == h.user \in DOMAIN locations
           written == ok /\ (h.existing => present)
       IN /\ locations' = IF written THEN MapSet(locations, h.user, LocationRow(h)) ELSE locations
          /\ saveLog' = IF written THEN [saveLog EXCEPT ![h.user] = Append(@, h.now)] ELSE saveLog
          /\ inserted' = IF written /\ ~h.existing
                         THEN [inserted EXCEPT ![h.user] = @ + 1] ELSE inserted
          /\ failLog' = IF written THEN failLog ELSE [failLog EXCEPT ![h.user] = @ \cup {h.now}]
    /\ lastSaveTimestamps' = MapSet(lastSaveTimestamps, h.user, h.now)
    /\ StepD(h, h, [Emit0 EXCEPT !.console = SavedConsole(h)])
    /\ UNCHANGED << clock, nTicks, tz, exited, reads, geofences, perms, history, onlineDosenMap,
                    onlineUsersMap, socks, rooms, joins, reqs, nEvents, statusLog, refused, sampleLog >>

\* saveLocation: UPDATE or INSERT; then lastSaveTimestamps.set(user.id, now)
UpdSaveRun(h, ok) ==
    /\ h \in upd /\ h.pc = "saveRun"
    /\ LET present == h.user \in DOMAIN locations
           \* UPDATE of a missing row changes nothing; INSERT of a present key fails
           written == ok /\ (h.existing = present)
       IN /\ locations' = IF written THEN MapSet(locations, h.user, LocationRow(h)) ELSE locations
          /\ saveLog' = IF written THEN [saveLog EXCEPT ![h.user] = Append(@, h.now)] ELSE saveLog
          /\ inserted' = IF written /\ ~h.existing
                         THEN [inserted EXCEPT ![h.user] = @ + 1] ELSE inserted
          /\ failLog' = IF written THEN failLog ELSE [failLog EXCEPT ![h.user] = @ \cup {h.now}]
    /\ lastSaveTimestamps' = MapSet(lastSaveTimestamps, h.user, h.now)
    /\ StepD(h, h, [Emit0 EXCEPT !.console = SavedConsole(h)])
    /\ UNCHANGED << clock, nTicks, tz, exited, reads, geofences, perms, history, onlineDosenMap,
                    onlineUsersMap, socks, rooms, joins, reqs, nEvents, statusLog, refused, sampleLog >>

(***************************************************************************)
(* logLocationToHistory, from its query on                                 *)
(***************************************************************************)
\* the rows of one lecturer's day: dosen_id = ? AND day_of_week = ? AND logged_date = ?
DayRows(rows, dosenId, dayOfWeek, today) ==
    {r \in rows : r.dosen_id = dosenId /\ r.day_of_week = dayOfWeek /\ r.logged_date = today}

\* ORDER BY logged_at DESC LIMIT 1: a row with the greatest logged_at; rows
\* logged in the same second are in no defined order
LastLogs(rows, dosenId, dayOfWeek, today) ==
    LET day == DayRows(rows, dosenId, dayOfWeek, today)
    IN IF day = {} THEN {NoLog}
       ELSE {[found |-> TRUE, location_name |-> r.location_name, logged_at |-> r.logged_at]
               : r \in {x \in day : \A y \in day : y.logged_at <= x.logged_at}}

\* variant: only the hour counts, a changed name does not
shouldLog_HourOnly(lastLog, nowMs, locationName) ==
    IF ~lastLog.found THEN TRUE
    ELSE nowMs - lastLog.logged_at >= LOCATION_LOG_THROTTLE_MS

\* the decision: no log today, or the name changed, or one hour passed
shouldLog(lastLog, nowMs, locationName) ==
    IF ~lastLog.found THEN TRUE
    ELSE LET timeSinceLastLog == nowMs - lastLog.logged_at
             locationChanged == lastLog.location_name # locationName
             hourPassed == timeSinceLastLog >= LOCATION_LOG_THROTTLE_MS
         IN IF locationChanged THEN TRUE ELSE hourPassed

\* await getOne(... ORDER BY logged_at DESC LIMIT 1) returns; the decision
UpdHistGet(h, ok) ==
    /\ h \in upd /\ h.pc = "histGet"
    /\ IF ok
       THEN \E lastLog \in LastLogs(history, h.user, getDay(h.hnow, tz), isoDate(h.hnow)) :
               IF shouldLog(lastLog, h.hnow, h.geo.locationName)
               THEN /\ upd' = Resume(upd, h, [h EXCEPT !.pc = "histIns", !.last = lastLog])
                    /\ emitted' = Emit0
               ELSE /\ upd' = upd \ {h}
                    /\ emitted' = [Emit0 EXCEPT
                          !.console = {[ev |-> "skip_same", hid |-> h.id, dosen_id |-> h.user,
                                        last |-> lastLog, now |-> h.hnow,
                                        location_name |-> h.geo.locationName]},
                          !.ack = Ack(h)]
       ELSE /\ upd' = upd \ {h}
            /\ emitted' = [Emit0 EXCEPT
                  !.console = {[ev |-> "history_error", hid |-> h.id, dosen_id |-> h.user]},
                  !.ack = Ack(h)]
    /\ UNCHANGED << clock, nTicks, tz, exited, inserted, reads, geofences, perms, locations, history,
                    lastSaveTimestamps, onlineDosenMap, onlineUsersMap, socks, rooms, joins,
                    reqs, nEvents, statusLog, refused, saveLog, failLog, sampleLog >>

HistoryRow(h, rows) ==
    [id |-> Cardinality(rows) + 1, hid |-> h.id, dosen_id |-> h.user, day_of_week |-> getDay(h.hnow, tz),
     location_name |-> h.geo.locationName, latitude |-> h.geo.displayLat,
     longitude |-> h.geo.displayLong, logged_date |-> isoDate(h.hnow),
     logged_at |-> sqlTimestamp(clock)]

\* variant: INSERT OR REPLACE of the day's row of that zone
InsertHistory_Replace(rows, r) ==
    {x \in rows : ~(/\ x.dosen_id = r.dosen_id /\ x.logged_date = r.logged_date
                    /\ x.day_of_week = r.day_of_week
                    /\ x.location_name = r.location_name)} \cup {r}

\* INSERT INTO location_history (...) VALUES (...): one more row
InsertHistory(rows, r) == rows \cup {r}

\* await runQuery(INSERT INTO location_history ...) returns
UpdHistIns(h, ok) ==
    /\ h \in upd /\ h.pc = "histIns"
    /\ upd' = upd \ {h}
    /\ history' = IF ok THEN InsertHistory(history, HistoryRow(h, history)) ELSE history
    /\ emitted' = [Emit0 EXCEPT
          !.console = {[ev |-> IF ok THEN "logged" ELSE "history_error",
                        hid |-> h.id, dosen_id |-> h.user]},
          !.ack = Ack(h)]
    /\ UNCHANGED << clock, nTicks, tz, exited, inserted, reads, geofences, perms, locations, lastSaveTimestamps,
                    onlineDosenMap, onlineUsersMap, socks, rooms, joins, reqs, nEvents,
                    statusLog, refused, saveLog, failLog, sampleLog >>

(***************************************************************************)
(* join_dosen_room and leave_dosen_room                                    *)
(***************************************************************************)
\* the dosenId of a payload: a lecturer id, or "" when the field is missing
RoomTargets == Dosen \cup {""}

\* an event sent without a payload: data is undefined
NoPayload == "undefined"

\* variant: any permission row passes, whatever its status
hasApprovedPermission_AnyRow(status) == status # "none"

\* the permission query finds a row: ... AND status = 'approved'
hasApprovedPermission(status) == status = "approved"

\* variant: the status is read from a copy of the table made at startup
PermissionStatus_Startup(student, lecturer) ==
    IF <<student, lecturer>> \in DOMAIN InitPerms THEN InitPerms[<<student, lecturer>>]
    ELSE "none"

\* variant: the query lacks "AND lecturer_id = ?"
PermissionStatus_AnyLecturer(student, lecturer) ==
    IF \E p \in DOMAIN perms : p[1] = student /\ perms[p] = "approved"
    THEN "approved" ELSE "none"

\* the status of the row (student_id, lecturer_id), "none" when there is no row
PermissionStatus(student, lecturer) ==
    IF <<student, lecturer>> \in DOMAIN perms THEN perms[<<student, lecturer>>] ELSE "none"

JoinFailed(j) == ErrorTo(j.sock, "Failed to join room")

\* the event arrives: role check and dosenId check, up to the permission query
JoinDosenRoom(s, dosenId) ==
    /\ s \in Connected
    /\ socks' = Touch(s)
    /\ IF role(socks[s].user) # "mahasiswa"
       THEN /\ emitted' = [Emit0 EXCEPT
                  !.err = ErrorTo(s, "Only mahasiswa can join dosen tracking rooms")]
            /\ UNCHANGED << joins, nEvents >>
       ELSE IF dosenId = NoPayload
       THEN \* reading data.dosenId throws inside the try
            /\ emitted' = [Emit0 EXCEPT !.err = ErrorTo(s, "Failed to join room")]
            /\ UNCHANGED << joins, nEvents >>
       ELSE IF dosenId = ""
       THEN /\ emitted' = [Emit0 EXCEPT !.err = ErrorTo(s, "dosen_id is required")]
            /\ UNCHANGED << joins, nEvents >>
       ELSE /\ nEvents' = nEvents + 1
            /\ joins' = joins \cup {[id |-> nEvents + 1, sock |-> s, user |-> socks[s].user,
                                     dosen |-> dosenId, pc |-> "permission",
                                     left |-> FALSE, live |-> 0]}
            /\ emitted' = Emit0
    /\ UNCHANGED << clock, nTicks, tz, exited, inserted, reads, geofences, perms, locations, history,
                    lastSaveTimestamps, onlineDosenMap, onlineUsersMap, rooms, upd, reqs,
                    statusLog, refused, saveLog, failLog, sampleLog >>

\* the permission query returns: denied, or socket.join(roomName)
JoinPermission(j, ok) ==
    /\ j \in joins /\ j.pc = "permission"
    /\ IF ~ok
       THEN /\ joins' = joins \ {j}
            /\ emitted' = [Emit0 EXCEPT !.err = JoinFailed(j)]
            /\ UNCHANGED << rooms, refused >>
       ELSE IF ~hasApprovedPermission(PermissionStatus(j.user, j.dosen))
       THEN /\ joins' = joins \ {j}
            /\ emitted' = [Emit0 EXCEPT !.err = ErrorTo(j.sock,
                  "Access denied. You do not have permission to track this dosen.")]
            /\ refused' = refused \cup {<<j.sock, j.dosen>>}
            /\ UNCHANGED rooms
       ELSE /\ joins' = Resume(joins, j, [j EXCEPT !.pc = "dosen"])
            /\ rooms' = IF j.dosen \in DOMAIN rooms
                        THEN [rooms EXCEPT ![j.dosen] = @ \cup {j.sock}] ELSE rooms
            /\ refused' = refused \ {<<j.sock, j.dosen>>}
            /\ emitted' = Emit0
    /\ UNCHANGED << clock, nTicks, tz, exited, inserted, reads, geofences, perms, locations, history,
                    lastSaveTimestamps, onlineDosenMap, onlineUsersMap, socks, upd, reqs,
                    nEvents, statusLog, saveLog, failLog, sampleLog >>

RoomJoined(j) == {[to |-> t, dosen_id |-> j.dosen] : t \in ToSocket(j.sock, Connected)}

\* the lecturer's name was read: the status snapshot, to this socket only
JoinDosen(j, ok) ==
    /\ j \in joins /\ j.pc = "dosen"
    /\ IF ~ok
       THEN /\ joins' = joins \ {j}
            /\ emitted' = [Emit0 EXCEPT !.err = JoinFailed(j)]
       ELSE LET isOnline == isUserOnline(j.dosen)
                status == {[to |-> t, dosen_id |-> j.dosen, is_online |-> isOnline,
                            global |-> FALSE] : t \in ToSocket(j.sock, Connected)}
            IN IF isOnline
               THEN /\ joins' = Resume(joins, j, [j EXCEPT !.pc = "location"])
                    /\ emitted' = [Emit0 EXCEPT !.status = status]
               ELSE /\ joins' = joins \ {j}
                    /\ emitted' = [Emit0 EXCEPT !.status = status, !.joined = RoomJoined(j)]
    /\ UNCHANGED << clock, nTicks, tz, exited, inserted, reads, geofences, perms, locations, history,
                    lastSaveTimestamps, onlineDosenMap, onlineUsersMap, socks, rooms, upd,
                    reqs, nEvents, statusLog, refused, saveLog, failLog, sampleLog >>

\* the last known location was read: the location snapshot, then room_joined
JoinLocation(j, ok) ==
    /\ j \in joins /\ j.pc = "location"
    /\ joins' = joins \ {j}
    /\ IF ~ok
       THEN emitted' = [Emit0 EXCEPT !.err = JoinFailed(j)]
       ELSE emitted' = [Emit0 EXCEPT
               !.snap = IF j.dosen \in DOMAIN locations
                        THEN {[to |-> t, jid |-> j.id, dosen_id |-> j.dosen,
                               latitude |-> locations[j.dosen].latitude,
                               longitude |-> locations[j.dosen].longitude,
                               position_name |-> locations[j.dosen].position_name,
                               last_updated |-> locations[j.dosen].last_updated]
                                : t \in ToSocket(j.sock, Connected)}
                        ELSE {},
               !.joined = RoomJoined(j)]
    /\ UNCHANGED << clock, nTicks, tz, exited, inserted, reads, geofences, perms, locations, history,
                    lastSaveTimestamps, onlineDosenMap, onlineUsersMap, socks, rooms, upd,
                    reqs, nEvents, statusLog, refused, saveLog, failLog, sampleLog >>

\* process.on('uncaughtException'): the error is logged and the process
\* exits; every connection closes, every handler and every Map is gone, the
\* tables stay
uncaughtException ==
    /\ exited' = TRUE
    /\ socks' = [i \in Sids |-> [socks[i] EXCEPT !.connected = FALSE, !.timer = 0]]
    /\ rooms' = [d \in Dosen |-> {}]
    /\ onlineDosenMap' = EmptyMap /\ onlineUsersMap' = EmptyMap
    /\ lastSaveTimestamps' = EmptyMap
    /\ upd' = {} /\ joins' = {} /\ reqs' = {} /\ reads' = {}
    /\ emitted' = [Emit0 EXCEPT !.console = {[ev |-> "uncaughtException"]}]

\* socket.on('leave_dosen_room'): socket.leave when a dosenId is given
LeaveDosenRoom(s, dosenId) ==
    /\ s \in Connected
    /\ IF dosenId = NoPayload
       THEN \* reading data.dosenId throws, and this listener has no try
            uncaughtException
       ELSE /\ socks' = Touch(s)
            /\ rooms' = IF dosenId \in DOMAIN rooms
                        THEN [rooms EXCEPT ![dosenId] = @ \ {s}] ELSE rooms
            /\ emitted' = [Emit0 EXCEPT !.console =
                  IF dosenId # ""
                  THEN {[ev |-> "left", sock |-> s, dosen_id |-> dosenId]} ELSE {}]
            \* history only: the joins of this room the connection sent before this leave
            /\ joins' = { IF j.sock = s /\ j.dosen = dosenId /\ dosenId # ""
                          THEN [j EXCEPT !.left = TRUE] ELSE j : j \in joins }
            /\ UNCHANGED << exited, reads, lastSaveTimestamps, onlineDosenMap, onlineUsersMap,
                            upd, reqs >>
    /\ UNCHANGED << clock, nTicks, tz, inserted, geofences, perms, locations, history,
                    nEvents, statusLog, refused, saveLog, failLog, sampleLog >>

(***************************************************************************)
(* handleRequest: a lecturer approves or rejects a tracking request        *)
(***************************************************************************)
\* permission ids: the two rows of the seeded store and an id of no row
PermissionIds == {<<"m1", "d1">>, <<"m2", "d1">>, <<"m1", "d2">>}
RequestActions == {"approved", "rejected"}

\* a body without permission_id
NoPermission == << >>

\* variant: the action is not validated
HandleRequest_AnyAction(lecturerId, permissionId, action) ==
    /\ ~exited
    /\ nEvents' = nEvents + 1
    /\ IF permissionId = NoPermission \/ action = ""
       THEN /\ emitted' = [Emit0 EXCEPT !.http = {[req |-> nEvents + 1, status |-> 400]}]
            /\ UNCHANGED reqs
       ELSE /\ reqs' = reqs \cup {[id |-> nEvents + 1, lecturer |-> lecturerId,
                                   permission |-> permissionId, action |-> action,
                                   pc |-> "get"]}
            /\ emitted' = Emit0
    /\ UNCHANGED << clock, nTicks, tz, exited, inserted, reads, geofences, perms, locations, history,
                    lastSaveTimestamps, onlineDosenMap, onlineUsersMap, socks, rooms, upd,
                    joins, statusLog, refused, saveLog, failLog, sampleLog >>

\* the request arrives: input validation, up to the query of the permission
HandleRequest(lecturerId, permissionId, action) ==
    /\ ~exited
    /\ nEvents' = nEvents + 1
    /\ IF permissionId = NoPermission \/ action = "" \/ action \notin RequestActions
       THEN /\ emitted' = [Emit0 EXCEPT !.http = {[req |-> nEvents + 1, status |-> 400]}]
            /\ UNCHANGED reqs
       ELSE /\ reqs' = reqs \cup {[id |-> nEvents + 1, lecturer |-> lecturerId,
                                   permission |-> permissionId, action |-> action,
                                   pc |-> "get"]}
            /\ emitted' = Emit0
    /\ UNCHANGED << clock, nTicks, tz, exited, inserted, reads, geofences, perms, locations, history,
                    lastSaveTimestamps, onlineDosenMap, onlineUsersMap, socks, rooms, upd,
                    joins, statusLog, refused, saveLog, failLog, sampleLog >>

Response(q, code) == {[req |-> q.id, status |-> code]}

\* the permission row was read: 404, 403, or on to the UPDATE
RequestGet(q, ok) ==
    /\ q \in reqs /\ q.pc = "get"
    /\ IF ~ok
       THEN /\ reqs' = reqs \ {q}
            /\ emitted' = [Emit0 EXCEPT !.http = Response(q, 500)]
       ELSE IF perms[q.permission] = "none"
       THEN /\ reqs' = reqs \ {q}
            /\ emitted' = [Emit0 EXCEPT !.http = Response(q, 404)]
       ELSE IF q.permission[2] # q.lecturer
       THEN /\ reqs' = reqs \ {q}
            /\ emitted' = [Emit0 EXCEPT !.http = Response(q, 403)]
       ELSE /\ reqs' = Resume(reqs, q, [q EXCEPT !.pc = "update"])
            /\ emitted' = Emit0
    /\ UNCHANGED << clock, nTicks, tz, exited, inserted, reads, geofences, perms, locations, history,
                    lastSaveTimestamps, onlineDosenMap, onlineUsersMap, socks, rooms, upd,
                    joins, nEvents, statusLog, refused, saveLog, failLog, sampleLog >>

\* UPDATE tracking_permissions SET status = ? WHERE id = ?
RequestUpdate(q, ok) ==
    /\ q \in reqs /\ q.pc = "update"
    /\ reqs' = reqs \ {q}
    /\ perms' = IF ok /\ perms[q.permission] # "none"
                THEN [perms EXCEPT ![q.permission] = q.action] ELSE perms
    /\ emitted' = [Emit0 EXCEPT !.http = Response(q, IF ok THEN 200 ELSE 500)]
    /\ UNCHANGED << clock, nTicks, tz, exited, inserted, reads, geofences, locations, history,
                    lastSaveTimestamps, onlineDosenMap, onlineUsersMap, socks, rooms, upd,
                    joins, nEvents, statusLog, refused, saveLog, failLog, sampleLog >>

(***************************************************************************)
(* requestAccess and forceAssignPermission: rows of tracking_permissions   *)
(* are made                                                                *)
(***************************************************************************)
\* a student asks for access to a lecturer: input validation
RequestAccess(studentId, lecturerId) ==
    /\ ~exited
    /\ nEvents' = nEvents + 1
    /\ IF lecturerId = ""
       THEN /\ emitted' = [Emit0 EXCEPT !.http = {[req |-> nEvents + 1, status |-> 400]}]
            /\ UNCHANGED reqs
       ELSE /\ reqs' = reqs \cup {[id |-> nEvents + 1, lecturer |-> lecturerId,
                                   permission |-> <<studentId, lecturerId>>,
                                   action |-> "pending", pc |-> "accessProfiles"]}
            /\ emitted' = Emit0
    /\ UNCHANGED << clock, nTicks, tz, exited, inserted, reads, geofences, perms, locations, history,
                    lastSaveTimestamps, onlineDosenMap, onlineUsersMap, socks, rooms, upd,
                    joins, statusLog, refused, saveLog, failLog, sampleLog >>

\* the admin assigns a lecturer to a student: input validation
ForceAssignPermission(studentId, lecturerId) ==
    /\ ~exited
    /\ nEvents' = nEvents + 1
    /\ IF studentId = "" \/ lecturerId = ""
       THEN /\ emitted' = [Emit0 EXCEPT !.http = {[req |-> nEvents + 1, status |-> 400]}]
            /\ UNCHANGED reqs
       ELSE /\ reqs' = reqs \cup {[id |-> nEvents + 1, lecturer |-> lecturerId,
                                   permission |-> <<studentId, lecturerId>>,
                                   action |-> "approved", pc |-> "assignProfiles"]}
            /\ emitted' = Emit0
    /\ UNCHANGED << clock, nTicks, tz, exited, inserted, reads, geofences, perms, locations, history,
                    lastSaveTimestamps, onlineDosenMap, onlineUsersMap, socks, rooms, upd,
                    joins, statusLog, refused, saveLog, failLog, sampleLog >>

\* the rows of mahasiswa and of dosen were read: 403 or 404 (requestAccess),
\* 404 (forceAssignPermission), or on to the query of the existing row
PermissionProfiles(q, ok) ==
    /\ q \in reqs /\ q.pc \in {"accessProfiles", "assignProfiles"}
    /\ LET code == IF ~ok THEN 500
                   ELSE IF q.permission[1] \notin Mahasiswa
                   THEN (IF q.pc = "accessProfiles" THEN 403 ELSE 404)
                   ELSE IF q.permission[2] \notin Dosen THEN 404
                   ELSE 0
       IN IF code # 0
          THEN /\ reqs' = reqs \ {q}
               /\ emitted' = [Emit0 EXCEPT !.http = Response(q, code)]
          ELSE /\ reqs' = Resume(reqs, q, [q EXCEPT !.pc =
                               IF q.pc = "accessProfiles" THEN "accessExisting"
                               ELSE "assignExisting"])
               /\ emitted' = Emit0
    /\ UNCHANGED << clock, nTicks, tz, exited, inserted, reads, geofences, perms, locations, history,
                    lastSaveTimestamps, onlineDosenMap, onlineUsersMap, socks, rooms, upd,
                    joins, nEvents, statusLog, refused, saveLog, failLog, sampleLog >>

\* SELECT id, status FROM tracking_permissions WHERE student_id = ? AND
\* lecturer_id = ? returned: requestAccess answers 409 for a row,
\* forceAssignPermission goes on to the UPDATE of it
PermissionExisting(q, ok) ==
    /\ q \in reqs /\ q.pc \in {"accessExisting", "assignExisting"}
    /\ LET existing == perms[q.permission] # "none"
       IN IF ~ok
          THEN /\ reqs' = reqs \ {q}
               /\ emitted' = [Emit0 EXCEPT !.http = Response(q, 500)]
          ELSE IF existing /\ q.pc = "accessExisting"
          THEN /\ reqs' = reqs \ {q}
               /\ emitted' = [Emit0 EXCEPT !.http = Response(q, 409)]
          ELSE /\ reqs' = Resume(reqs, q, [q EXCEPT !.pc =
                               IF existing THEN "assignUpdate" ELSE "insert"])
               /\ emitted' = Emit0
    /\ UNCHANGED << clock, nTicks, tz, exited, inserted, reads, geofences, perms, locations, history,
                    lastSaveTimestamps, onlineDosenMap, onlineUsersMap, socks, rooms, upd,
                    joins, nEvents, statusLog, refused, saveLog, failLog, sampleLog >>

\* forceAssignPermission: UPDATE tracking_permissions SET status = 'approved'
\* WHERE id = ?
AssignUpdate(q, ok) ==
    /\ q \in reqs /\ q.pc = "assignUpdate"
    /\ reqs' = reqs \ {q}
    /\ perms' = IF ok /\ perms[q.permission] # "none"
                THEN [perms EXCEPT ![q.permission] = "approved"] ELSE perms
    /\ emitted' = [Emit0 EXCEPT !.http = Response(q, IF ok THEN 200 ELSE 500)]
    /\ UNCHANGED << clock, nTicks, tz, exited, inserted, reads, geofences, locations, history,
                    lastSaveTimestamps, onlineDosenMap, onlineUsersMap, socks, rooms, upd,
                    joins, nEvents, statusLog, refused, saveLog, failLog, sampleLog >>

\* variant: the table has no UNIQUE(student_id, lecturer_id)
PermissionInsert_NoUnique(q, ok) ==
    /\ q \in reqs /\ q.pc = "insert"
    /\ reqs' = reqs \ {q}
    /\ perms' = IF ok THEN [perms EXCEPT ![q.permission] = q.action] ELSE perms
    /\ emitted' = [Emit0 EXCEPT !.http = Response(q, IF ok THEN 201 ELSE 500)]
    /\ UNCHANGED << clock, nTicks, tz, exited, inserted, reads, geofences, locations, history,
                    lastSaveTimestamps, onlineDosenMap, onlineUsersMap, socks, rooms, upd,
                    joins, nEvents, statusLog, refused, saveLog, failLog, sampleLog >>

\* INSERT INTO tracking_permissions: refused by UNIQUE(student_id,
\* lecturer_id) when a row of the pair was inserted meanwhile (500)
PermissionInsert(q, ok) ==
    /\ q \in reqs /\ q.pc = "insert"
    /\ LET inserts == ok /\ perms[q.permission] = "none"
       IN /\ reqs' = reqs \ {q}
          /\ perms' = IF inserts THEN [perms EXCEPT ![q.permission] = q.action] ELSE perms
          /\ emitted' = [Emit0 EXCEPT !.http = Response(q, IF inserts THEN 201 ELSE 500)]
    /\ UNCHANGED << clock, nTicks, tz, exited, inserted, reads, geofences, locations, history,
                    lastSaveTimestamps, onlineDosenMap, onlineUsersMap, socks, rooms, upd,
                    joins, nEvents, statusLog, refused, saveLog, failLog, sampleLog >>

(***************************************************************************)
(* getLocationHistory: a lecturer or a student reads a lecturer's history  *)
(***************************************************************************)
\* res.status(code).json({error}) of getLocationHistory
Refusal(q, code) == {[req |-> q.id, status |-> code, logs |-> {}]}

\* the request arrives: the role decides whose history is read;
\* requestedDosenId is req.query.dosen_id, "" when it is missing
GetLocationHistory(userId, requestedDosenId) ==
    /\ ~exited
    /\ nEvents' = nEvents + 1
    /\ LET q == [id |-> nEvents + 1, user |-> userId, dosen |-> requestedDosenId,
                 pc |-> "permission"]
       IN IF role(userId) = "dosen"
          THEN /\ reads' = reads \cup {[q EXCEPT !.dosen = userId, !.pc = "rows"]}
               /\ emitted' = Emit0
          ELSE IF role(userId) = "mahasiswa"
          THEN IF requestedDosenId = ""
               THEN /\ emitted' = [Emit0 EXCEPT !.http = Refusal(q, 400)]
                    /\ UNCHANGED reads
               ELSE /\ reads' = reads \cup {q}
                    /\ emitted' = Emit0
          ELSE /\ emitted' = [Emit0 EXCEPT !.http = Refusal(q, 403)]
               /\ UNCHANGED reads
    /\ UNCHANGED << clock, nTicks, tz, exited, inserted, geofences, perms, locations, history,
                    lastSaveTimestamps, onlineDosenMap, onlineUsersMap, socks, rooms, upd,
                    joins, reqs, statusLog, refused, saveLog, failLog, sampleLog >>

\* variant: the permission query lacks "AND status = 'approved'"
ReadAllowed_AnyStatus(student, lecturer) == PermissionStatus(student, lecturer) # "none"

\* SELECT id FROM tracking_permissions WHERE student_id = ? AND lecturer_id = ?
\* AND status = 'approved' finds a row
ReadAllowed(student, lecturer) == PermissionStatus(student, lecturer) = "approved"

\* the permission query returns: 403, or on to the query of the lecturer
ReadPermission(q, ok) ==
    /\ q \in reads /\ q.pc = "permission"
    /\ IF ~ok
       THEN /\ reads' = reads \ {q}
            /\ emitted' = [Emit0 EXCEPT !.http = Refusal(q, 500)]
       ELSE IF ~ReadAllowed(q.user, q.dosen)
       THEN /\ reads' = reads \ {q}
            /\ emitted' = [Emit0 EXCEPT !.http = Refusal(q, 403)]
       ELSE /\ reads' = Resume(reads, q, [q EXCEPT !.pc = "dosen"])
            /\ emitted' = Emit0
    /\ UNCHANGED << clock, nTicks, tz, exited, inserted, geofences, perms, locations, history,
                    lastSaveTimestamps, onlineDosenMap, onlineUsersMap, socks, rooms, upd,
                    joins, reqs, nEvents, statusLog, refused, saveLog, failLog, sampleLog >>

\* the query of the lecturer returns: 404, or on to the query of the rows
ReadDosen(q, ok) ==
    /\ q \in reads /\ q.pc = "dosen"
    /\ IF ~ok
       THEN /\ reads' = reads \ {q}
            /\ emitted' = [Emit0 EXCEPT !.http = Refusal(q, 500)]
       ELSE IF q.dosen \notin Dosen
       THEN /\ reads' = reads \ {q}
            /\ emitted' = [Emit0 EXCEPT !.http = Refusal(q, 404)]
       ELSE /\ reads' = Resume(reads, q, [q EXCEPT !.pc = "rows"])
            /\ emitted' = Emit0
    /\ UNCHANGED << clock, nTicks, tz, exited, inserted, geofences, perms, locations, history,
                    lastSaveTimestamps, onlineDosenMap, onlineUsersMap, socks, rooms, upd,
                    joins, reqs, nEvents, statusLog, refused, saveLog, failLog, sampleLog >>

\* SELECT ... FROM location_history WHERE dosen_id = ?: the rows of the answer
HistoryOf(rows, dosenId) == {r \in rows : r.dosen_id = dosenId}

\* the query of the rows returns: the response with every log of the lecturer
ReadRows(q, ok) ==
    /\ q \in reads /\ q.pc = "rows"
    /\ reads' = reads \ {q}
    /\ emitted' = [Emit0 EXCEPT !.http =
          IF ok THEN {[req |-> q.id, status |-> 200, dosen_id |-> q.dosen,
                       logs |-> HistoryOf(history, q.dosen)]}
          ELSE Refusal(q, 500)]
    /\ UNCHANGED << clock, nTicks, tz, exited, inserted, geofences, perms, locations, history,
                    lastSaveTimestamps, onlineDosenMap, onlineUsersMap, socks, rooms, upd,
                    joins, reqs, nEvents, statusLog, refused, saveLog, failLog, sampleLog >>

(***************************************************************************)
(* Specifications.  Every specification runs the same handlers; each       *)
(* describes one environment: who connects and what the clients send.      *)
(***************************************************************************)
\* the steps of a suspended update_location handler; oks = {TRUE}: no store fails
UpdateSteps(oks) ==
    \/ \E h \in upd, ok \in oks : UpdGeofence(h, ok)
    \/ \E h \in upd, ok \in oks : UpdSaveGet(h, ok)
    \/ \E h \in upd, ok \in oks : UpdSaveRun(h, ok)
    \/ \E h \in upd, ok \in oks : UpdHistGet(h, ok)
    \/ \E h \in upd, ok \in oks : UpdHistIns(h, ok)

\* the whole system
Next ==
    \/ \E u \in Users : Len(socks) < MaxSockets /\ Connect(u)
    \/ \E s \in Sids : Disconnect(s)
    \/ \E s \in Sids : Timeout(s)
    \/ \E d \in PresenceSteps \cup ThrottleSteps \cup HistorySteps : nTicks < MaxTicks /\ Tick(d)
    \/ \E s \in Sids, data \in SampleData : nEvents < MaxEvents /\ UpdateLocation(s, data)
    \/ \E s \in Sids, d \in RoomTargets : nEvents < MaxEvents /\ JoinDosenRoom(s, d)
    \/ \E s \in Sids, d \in RoomTargets : LeaveDosenRoom(s, d)
    \/ \E l \in Dosen, p \in PermissionIds, a \in RequestActions :
          nEvents < MaxEvents /\ HandleRequest(l, p, a)
    \/ UpdateSteps(BOOLEAN)
    \/ \E j \in joins, ok \in BOOLEAN : JoinPermission(j, ok)
    \/ \E j \in joins, ok \in BOOLEAN : JoinDosen(j, ok)
    \/ \E j \in joins, ok \in BOOLEAN : JoinLocation(j, ok)
    \/ \E q \in reqs, ok \in BOOLEAN : RequestGet(q, ok)
    \/ \E q \in reqs, ok \in BOOLEAN : RequestUpdate(q, ok)

Spec == Init /\ [][Next]_vars

\* Presence: connections of every role come and go while time passes
NextPresence ==
    \/ \E u \in Users : Len(socks) < MaxSockets /\ Connect(u)
    \/ \E s \in Sids : Disconnect(s)
    \/ \E s \in Sids : Timeout(s)
    \/ \E d \in PresenceSteps : nTicks < MaxTicks /\ Tick(d)
    \/ \E s \in Sids : LeaveDosenRoom(s, "")

SpecPresence == Init /\ [][NextPresence]_vars

\* Registry: the presence operations are called again for a connection that
\* is registered already, or that is gone already
RegistryUsers == {"d1", "m1", "a1"}
NextRegistry ==
    \/ \E u \in RegistryUsers : Len(socks) < MaxSockets /\ Connect(u)
    \/ \E s \in Sids : Disconnect(s)
    \/ \E s \in Connected :
          (\A d \in Dosen : Len(statusLog[d]) <= MaxEvents) /\ handleDosenConnection(s)
    \/ \E s \in Connected : handleMahasiswaConnection(s)
    \/ \E s \in Sids \ Connected : handleDisconnect(s, {})

SpecRegistry == Init /\ [][NextRegistry]_vars

\* Watchdog: connections of every role send events of every name while time
\* passes; a timer that is due fires
WatchUsers == {"d1", "m1", "a1"}
WatchData == {[kind |-> "nodata", lat |-> 0, long |-> 0]}
NextWatchdog ==
    \/ \E u \in WatchUsers : Len(socks) <= MaxLecturerSockets /\ Connect(u)
    \/ \E s \in Sids : Disconnect(s)
    \/ \E s \in Sids : Timeout(s)
    \/ \E d \in PresenceSteps : nTicks < MaxTicks /\ Tick(d)
    \/ \E s \in Sids, data \in WatchData : UpdateLocation(s, data)
    \/ \E s \in Sids : JoinDosenRoom(s, "")
    \/ \E s \in Sids : LeaveDosenRoom(s, "d1")

SpecWatchdog ==
    Init /\ [][NextWatchdog]_vars /\ \A s \in 1..MaxSockets : WF_vars(Timeout(s))

\* Payloads: a lecturer and a student send every event with every kind of
\* payload, no payload at all included; the stores may fail; no connection
\* is closed by its client
PayloadUsers == {"d1", "m1"}
PayloadData ==
    {[kind |-> k, lat |-> 0, long |-> 0] : k \in {"number", "undefined", "string", "nodata"}}
PayloadTargets == {"d1", "", NoPayload}
NextPayload ==
    \/ \E u \in PayloadUsers : Len(socks) <= MaxLecturerSockets /\ Connect(u)
    \/ \E s \in Sids, data \in PayloadData : nEvents < MaxEvents /\ UpdateLocation(s, data)
    \/ \E s \in Sids, d \in PayloadTargets : nEvents < MaxEvents /\ JoinDosenRoom(s, d)
    \/ \E s \in Sids, d \in PayloadTargets : LeaveDosenRoom(s, d)
    \/ UpdateSteps(BOOLEAN)
    \/ \E j \in joins, ok \in BOOLEAN : JoinPermission(j, ok)
    \/ \E j \in joins, ok \in BOOLEAN : JoinDosen(j, ok)
    \/ \E j \in joins, ok \in BOOLEAN : JoinLocation(j, ok)

SpecPayload == Init /\ [][NextPayload]_vars

\* Reading: two lecturers log in-zone samples, one after the other; then
\* users of every role ask for a history, and the lecturer approves or rejects
\* meanwhile
ReadLecturers == {"d1", "d2"}
ReadUsers == {"d1", "m1", "m2", "a1"}
ReadTargets == {"d1", "d2", ""}
ReadData == {[kind |-> "number", lat |-> 0, long |-> 0]}
NextRead ==
    \/ \E u \in ReadLecturers : Len(socks) <= MaxLecturerSockets /\ Connect(u)
    \/ \E s \in Sids, data \in ReadData :
          /\ Cardinality(DOMAIN sampleLog) < MaxEvents /\ upd = {} /\ nEvents < MaxEvents
          /\ UpdateLocation(s, data)
    \/ UpdateSteps({TRUE})
    \/ \E u \in ReadUsers, d \in ReadTargets :
          upd = {} /\ nEvents < MaxEvents + MaxReads /\ GetLocationHistory(u, d)
    \/ \E q \in reads : ReadPermission(q, TRUE)
    \/ \E q \in reads : ReadDosen(q, TRUE)
    \/ \E q \in reads : ReadRows(q, TRUE)
    \/ \E a \in RequestActions :
          upd = {} /\ nEvents < MaxEvents + MaxReads /\ HandleRequest("d1", <<"m1", "d1">>, a)
    \/ \E q \in reqs : RequestGet(q, TRUE)
    \/ \E q \in reqs : RequestUpdate(q, TRUE)

SpecRead == Init /\ [][NextRead]_vars

\* Approval: a student joins the room of a lecturer who approves or rejects
\* the student's permission meanwhile
ApprovalUsers == {"d1", "m1"}
ApprovalPermission == <<"m1", "d1">>
NextApproval ==
    \/ \E u \in ApprovalUsers : Len(socks) <= MaxLecturerSockets /\ Connect(u)
    \/ \E s \in Sids : Disconnect(s)
    \/ \E s \in Sids : nEvents < MaxEvents /\ JoinDosenRoom(s, "d1")
    \/ \E s \in Sids : LeaveDosenRoom(s, "d1")
    \/ \E a \in RequestActions :
          nEvents < MaxEvents /\ HandleRequest("d1", ApprovalPermission, a)
    \/ \E j \in joins : JoinPermission(j, TRUE)
    \/ \E j \in joins : JoinDosen(j, TRUE)
    \/ \E j \in joins : JoinLocation(j, TRUE)
    \/ \E q \in reqs : RequestGet(q, TRUE)
    \/ \E q \in reqs : RequestUpdate(q, TRUE)

SpecApproval == Init /\ [][NextApproval]_vars

\* Revocation: a student joins, the lecturer rejects the permission, and the
\* lecturer goes on sending samples
RevokeUsers == {"d1", "m1"}
RevokeData == {[kind |-> "number", lat |-> 0, long |-> 0]}
MaxRevokeEvents == MaxEvents + 1
NextRevoke ==
    \/ \E u \in RevokeUsers : Len(socks) <= MaxLecturerSockets /\ Connect(u)
    \/ \E s \in Sids : Disconnect(s)
    \/ \E s \in Sids : nEvents < MaxRevokeEvents /\ JoinDosenRoom(s, "d1")
    \/ \E s \in Sids : LeaveDosenRoom(s, "d1")
    \/ \E a \in RequestActions :
          nEvents < MaxRevokeEvents /\ HandleRequest("d1", ApprovalPermission, a)
    \/ \E s \in Sids, data \in RevokeData :
          nEvents < MaxRevokeEvents /\ UpdateLocation(s, data)
    \/ UpdateSteps({TRUE})
    \/ \E j \in joins : JoinPermission(j, TRUE)
    \/ \E j \in joins : JoinDosen(j, TRUE)
    \/ \E j \in joins : JoinLocation(j, TRUE)
    \/ \E q \in reqs : RequestGet(q, TRUE)
    \/ \E q \in reqs : RequestUpdate(q, TRUE)

SpecRevoke == Init /\ [][NextRevoke]_vars

\* Authentication: handshakes with every kind of token, among connections
\* that come and go
NextAuth ==
    \/ \E token \in Tokens, ok \in BOOLEAN : Len(socks) < MaxSockets /\ Handshake(token, ok)
    \/ \E s \in Sids : Disconnect(s)
    \/ \E s \in Sids : Timeout(s)
    \/ \E d \in PresenceSteps : nTicks < MaxTicks /\ Tick(d)

SpecAuth == Init /\ [][NextAuth]_vars

\* Roles: a lecturer, a student and an admin send each other's events, and
\* the student names a lecturer that does not exist
RoleUsers == {"d1", "m1", "a1"}
RoleTargets == {"d1", "gone"}
RoleData == {[kind |-> "number", lat |-> 0, long |-> 0]}
NextRole ==
    \/ \E u \in RoleUsers : Len(socks) < MaxSockets /\ Connect(u)
    \/ \E s \in Sids : Disconnect(s)
    \/ \E s \in Sids, data \in RoleData : nEvents < MaxEvents /\ UpdateLocation(s, data)
    \/ \E s \in Sids, d \in RoleTargets : nEvents < MaxEvents /\ JoinDosenRoom(s, d)
    \/ UpdateSteps({TRUE})
    \/ \E j \in joins : JoinPermission(j, TRUE)
    \/ \E j \in joins : JoinDosen(j, TRUE)
    \/ \E j \in joins : JoinLocation(j, TRUE)

SpecRole == Init /\ [][NextRole]_vars

\* Rooms: one lecturer and two students, one of them approved
RoomUsers == {"d1", "m1", "m2"}
RoomData == {[kind |-> "number", lat |-> 0, long |-> 0]}
RoomPermission == <<"m2", "d1">>
NextRoom ==
    \/ \E u \in RoomUsers : Len(socks) < MaxSockets /\ Connect(u)
    \/ \E s \in Sids : Disconnect(s)
    \/ \E s \in Sids, data \in RoomData : nEvents < MaxEvents /\ UpdateLocation(s, data)
    \/ \E s \in Sids, d \in {"d1", ""} : nEvents < MaxEvents /\ JoinDosenRoom(s, d)
    \/ \E s \in Sids : LeaveDosenRoom(s, "d1")
    \/ \E a \in RequestActions : nEvents < MaxEvents /\ HandleRequest("d1", RoomPermission, a)
    \/ UpdateSteps({TRUE})
    \/ \E j \in joins : JoinPermission(j, TRUE)
    \/ \E j \in joins : JoinDosen(j, TRUE)
    \/ \E j \in joins : JoinLocation(j, TRUE)
    \/ \E q \in reqs : RequestGet(q, TRUE)
    \/ \E q \in reqs : RequestUpdate(q, TRUE)

SpecRoom == Init /\ [][NextRoom]_vars

\* Samples: one lecturer connection sends every kind of payload; the stores may fail
NextSample ==
    \/ Len(socks) < MaxLecturerSockets /\ Connect("d1")
    \/ \E s \in Sids, data \in SampleData : nEvents < MaxEvents /\ UpdateLocation(s, data)
    \/ UpdateSteps(BOOLEAN)

SpecSample == Init /\ [][NextSample]_vars

\* Zones: the geofences table holds overlapping zones, in either order
ZoneA == [name |-> "A", latitude |-> 0, longitude |-> 0, radius |-> 5]
ZoneB == [name |-> "B", latitude |-> 4, longitude |-> 0, radius |-> 5]
ZoneC == [name |-> "C", latitude |-> 20, longitude |-> 0, radius |-> 2]
ZoneTables == { <<ZoneA, ZoneB>>, <<ZoneB, ZoneA>>, <<ZoneC, ZoneB, ZoneA>>, << >> }
ZoneData == {[kind |-> "number", lat |-> p[1], long |-> p[2]]
               : p \in {<<1, 0>>, <<3, 0>>, <<8, 0>>, <<12, 0>>}}
NextZones ==
    \/ Len(socks) < MaxLecturerSockets /\ Connect("d1")
    \/ \E s \in Sids, data \in ZoneData : nEvents < MaxEvents /\ UpdateLocation(s, data)
    \/ UpdateSteps({TRUE})

InitZones == InitStore /\ clock = Clock0 /\ tz = 0 /\ geofences \in ZoneTables

SpecZones == InitZones /\ [][NextZones]_vars

\* Store: a lecturer and an approved student; every kind of operation of the
\* engine runs while in-zone samples are logged
StoreUsers == {"d1", "m1"}
StoreData == {[kind |-> "number", lat |-> 0, long |-> 0]}
NextStore ==
    \/ \E u \in StoreUsers : Len(socks) <= MaxLecturerSockets /\ Connect(u)
    \/ \E s \in Sids : Disconnect(s)
    \/ \E s \in Sids : Timeout(s)
    \/ nTicks < MaxTicks /\ Tick(LOCATION_LOG_THROTTLE_MS)
    \/ \E s \in Sids, data \in StoreData : nEvents < MaxEvents /\ UpdateLocation(s, data)
    \/ \E s \in Sids : nEvents < MaxEvents /\ JoinDosenRoom(s, "d1")
    \/ \E s \in Sids : LeaveDosenRoom(s, "d1")
    \/ UpdateSteps({TRUE})
    \/ \E j \in joins : JoinPermission(j, TRUE)
    \/ \E j \in joins : JoinDosen(j, TRUE)
    \/ \E j \in joins : JoinLocation(j, TRUE)

SpecStore == Init /\ [][NextStore]_vars

\* Throttle: samples of one lecturer seconds apart
ThrottleData == {[kind |-> "number", lat |-> 0, long |-> 0]}
NextThrottle ==
    \/ Len(socks) < MaxLecturerSockets /\ Connect("d1")
    \/ \E s \in Sids : Disconnect(s)
    \/ \E d \in ThrottleSteps : nTicks < MaxTicks /\ Tick(d)
    \/ \E s \in Sids, data \in ThrottleData : nEvents < MaxEvents /\ UpdateLocation(s, data)
    \/ UpdateSteps(BOOLEAN)

SpecThrottle == Init /\ [][NextThrottle]_vars

\* Retry: three samples of one lecturer seconds apart; the writes to
\* locations may fail, the other queries do not
MaxRetryEvents == MaxEvents + 1
NextRetry ==
    \/ Len(socks) < MaxLecturerSockets /\ Connect("d1")
    \/ \E d \in ThrottleSteps : nTicks < MaxTicks /\ Tick(d)
    \/ \E s \in Sids, data \in ThrottleData :
          nEvents < MaxRetryEvents /\ UpdateLocation(s, data)
    \/ \E h \in upd : UpdGeofence(h, TRUE)
    \/ \E h \in upd, ok \in BOOLEAN : UpdSaveGet(h, ok)
    \/ \E h \in upd, ok \in BOOLEAN : UpdSaveRun(h, ok)
    \/ \E h \in upd : UpdHistGet(h, TRUE)
    \/ \E h \in upd : UpdHistIns(h, TRUE)

SpecRetry == Init /\ [][NextRetry]_vars

\* Access: students and a user who is no student ask for access, the admin
\* assigns, and the two lecturers answer requests that are theirs, another's
\* or nobody's, all at once; every query may fail
AccessStudents == {"m2", "d1"}
AccessLecturers == {"d1", "d2", "m1", ""}
AccessIds == {<<"m2", "d1">>, <<"m2", "d2">>}
AccessActions == RequestActions \cup {"pending", ""}
NextAccess ==
    \/ \E st \in AccessStudents, l \in AccessLecturers :
          nEvents < MaxEvents /\ RequestAccess(st, l)
    \/ \E st \in AccessStudents \cup {""}, l \in AccessLecturers :
          nEvents < MaxEvents /\ ForceAssignPermission(st, l)
    \/ \E l \in Dosen, p \in AccessIds \cup {NoPermission}, a \in AccessActions :
          nEvents < MaxEvents /\ HandleRequest(l, p, a)
    \/ \E q \in reqs, ok \in BOOLEAN : PermissionProfiles(q, ok)
    \/ \E q \in reqs, ok \in BOOLEAN : PermissionExisting(q, ok)
    \/ \E q \in reqs, ok \in BOOLEAN : AssignUpdate(q, ok)
    \/ \E q \in reqs, ok \in BOOLEAN : PermissionInsert(q, ok)
    \/ \E q \in reqs, ok \in BOOLEAN : RequestGet(q, ok)
    \/ \E q \in reqs, ok \in BOOLEAN : RequestUpdate(q, ok)

SpecAccess == Init /\ [][NextAccess]_vars

\* Shared: two lecturers, with up to three connections between them that
\* close and are made again while no sample is being handled, send samples
\* seconds apart; the handlers of the samples interleave
SharedUsers == {"d1", "d2"}
NextShared ==
    \/ \E u \in SharedUsers : Len(socks) < MaxSockets /\ upd = {} /\ Connect(u)
    \/ \E s \in Sids : upd = {} /\ Disconnect(s)
    \/ \E d \in ThrottleSteps : nTicks < MaxTicks /\ upd = {} /\ Tick(d)
    \/ \E s \in Sids, data \in ThrottleData : nEvents < MaxEvents /\ UpdateLocation(s, data)
    \/ UpdateSteps({TRUE})

SpecShared == Init /\ [][NextShared]_vars

\* History: samples of one lecturer minutes and hours apart, in two zones and
\* outside, on a server in UTC or in UTC+7
HistoryData == {[kind |-> "number", lat |-> p[1], long |-> p[2]]
                  : p \in {<<0, 0>>, <<52, 18>>, <<6, 0>>}}
NextHistory ==
    \/ Len(socks) < MaxLecturerSockets /\ Connect("d1")
    \/ \E s \in Sids : Disconnect(s)
    \/ \E d \in HistorySteps : nTicks < MaxTicks /\ Tick(d)
    \/ \E s \in Sids, data \in HistoryData : nEvents < MaxEvents /\ UpdateLocation(s, data)
    \/ UpdateSteps(BOOLEAN)

InitHistory == InitStore /\ clock = Clock0 /\ tz \in TzOffsets /\ geofences = SeededGeofences

SpecHistory == InitHistory /\ [][NextHistory]_vars

(***************************************************************************)
(* Presence                                                                *)
(***************************************************************************)
NumConnects(u) == Cardinality({s \in Sids : socks[s].user = u})
NumDisconnects(u) == Cardinality({s \in Sids : socks[s].user = u /\ ~socks[s].connected})
ConnectionCount(u) == Cardinality(MapGet(onlineUsersMap, u, {}))

\* C1 as stated: for an identity of any role, isUserOnline is true iff its
\* completed connects exceed its completed disconnects, i.e. iff one of its
\* connections is active
C1_Original ==
    \A u \in Users :
        /\ isUserOnline(u) <=> (NumConnects(u) > NumDisconnects(u))
        /\ isUserOnline(u) <=> (ActiveConns(u) # {})

\* C1 (amended): for a lecturer or a student, isUserOnline is true iff its
\* completed connects exceed its completed disconnects, iff one of its
\* connections is active, and the derived count is their difference, never
\* negative; an admin is never registered, so it is never online
C1_Presence ==
    /\ \A u \in Dosen \cup Mahasiswa :
          /\ isUserOnline(u) <=> (NumConnects(u) > NumDisconnects(u))
          /\ isUserOnline(u) <=> (ActiveConns(u) # {})
          /\ ConnectionCount(u) = NumConnects(u) - NumDisconnects(u)
          /\ ConnectionCount(u) >= 0
    /\ \A u \in Admin : ~isUserOnline(u)

\* an identity with two connects and one disconnect behind it is online
C1_Witness ==
    \E u \in Dosen \cup Mahasiswa :
        NumConnects(u) = 2 /\ NumDisconnects(u) = 1 /\ isUserOnline(u)

\* the global dosen_status messages of a step about lecturer d
GlobalStatus(out, d) == {m \in out.status : m.global /\ m.dosen_id = d}

C2_Alternates ==
    \A d \in Dosen : \A i \in 1..Len(statusLog[d]) : statusLog[d][i] = (i % 2 = 1)

C2_Step ==
    \A d \in Dosen :
        LET before == ActiveConns(d)
            after == {s \in Connected' : socks'[s].user = d}
            sentOn == statusLog'[d] = Append(statusLog[d], TRUE)
            sentOff == statusLog'[d] = Append(statusLog[d], FALSE)
        IN /\ sentOn <=> (before = {} /\ after # {})
           /\ sentOff <=> (before # {} /\ after = {})
           /\ statusLog'[d] # statusLog[d] => sentOn \/ sentOff
           /\ sentOn \/ sentOff =>
                 /\ {m.to : m \in GlobalStatus(emitted', d)} = Connected'
                 /\ \A m \in GlobalStatus(emitted', d) : m.is_online = sentOn
           /\ ~(sentOn \/ sentOff) => GlobalStatus(emitted', d) = {}

\* C2: a global dosen_status{true} for lecturer L goes to all connections
\* exactly when L's connection set becomes non-empty and {false} exactly when
\* it becomes empty, so the broadcasts about L alternate true, false, true,
\* ...; a further connection, or the disconnect of one of several, emits none
C2_StatusTransitions == []C2_Alternates /\ [][C2_Step]_vars

\* a lecturer went online, offline and online again
C2_Witness == \E d \in Dosen : statusLog[d] = << TRUE, FALSE, TRUE >>

(***************************************************************************)
(* Rooms                                                                   *)
(***************************************************************************)
\* handler x of set hs takes its step at position pc in this transition
Steps(hs, hsNext, x, pc) ==
    x \in hs /\ x.pc = pc /\ ~\E y \in hsNext : y.id = x.id /\ y.pc = pc

C3_Step ==
    \* a join without an approved permission: an error, no membership, no data
    /\ \A j \in joins :
          Steps(joins, joins', j, "permission") /\ perms[<<j.user, j.dosen>>] # "approved" =>
             /\ rooms' = rooms
             /\ j.sock \in Connected => \E e \in emitted'.err : e.to = j.sock
             /\ emitted'.moved = {} /\ emitted'.snap = {} /\ emitted'.joined = {}
             /\ ~\E y \in joins' : y.id = j.id
    \* an approval (or rejection) changes no membership and sends no location
    /\ perms' # perms => rooms' = rooms /\ emitted'.moved = {} /\ emitted'.snap = {}
    \* a student socket becomes a member only by a join that finds the approval
    /\ \A d \in Dosen : \A s \in rooms'[d] \ rooms[d] :
          \/ s \notin Sids /\ socks'[s].user = d
          \/ \E j \in joins :
                /\ Steps(joins, joins', j, "permission")
                /\ j.sock = s /\ j.dosen = d
                /\ perms[<<socks[s].user, d>>] = "approved"
    \* dosen_moved goes to members only; a snapshot only to a join that passed
    /\ \A m \in emitted'.moved : m.to \in rooms[m.data.dosen_id]
    /\ \A m \in emitted'.snap :
          \E j \in joins : j.id = m.jid /\ j.pc = "location" /\ j.sock = m.to

C4_Original ==
    /\ \A m \in emitted.moved :
          socks[m.to].user = m.data.dosen_id \/ m.to \in rooms[m.data.dosen_id]
    /\ \A m \in emitted.snap :
          socks[m.to].user = m.dosen_id \/ m.to \in rooms[m.dosen_id]

C5_Step ==
    /\ \A h \in upd :
          Steps(upd, upd', h, "geofence") =>
             LET msgs == {m \in emitted'.moved : m.data.hid = h.id}
             IN /\ {m.to : m \in msgs} = rooms[h.user] \cap Connected
                /\ \A m1, m2 \in msgs : m1.data = m2.data
                /\ \A m \in msgs : m.data.dosen_id = h.user
                /\ emitted'.moved = msgs
    /\ emitted'.moved # {} => \E h \in upd : Steps(upd, upd', h, "geofence")
    \* a sample is classified, and so broadcast, once
    /\ \A h \in upd' : h.pc = "geofence" => h \in upd \/ (h.id = nEvents' /\ nEvents' = nEvents + 1)

\* C5: every numeric update_location sample of a lecturer connection causes
\* exactly one dosen_moved emission to the lecturer's room, with one payload
\* for every connected member of the room at that moment, whether or not the
\* persistence or the history throttle suppresses the write of that sample
C5_Broadcast == [][C5_Step]_vars

\* a sample went to two members of the room while the save throttle held its
\* write back
C5_Witness ==
    \E h \in upd :
        /\ h.pc = "histGet"
        /\ h.user \in DOMAIN lastSaveTimestamps
        /\ h.now - lastSaveTimestamps[h.user] < LOCATION_SAVE_THROTTLE_MS
        /\ Cardinality({m.to : m \in {x \in emitted.moved : x.data.hid = h.id}}) >= 2

(***************************************************************************)
(* Classification and masking                                              *)
(***************************************************************************)
\* the rows of the geofences table whose circle holds the raw sample
ZonesHolding(lat, long) ==
    {i \in 1..Len(geofences) :
        (geofences[i].latitude - lat) * (geofences[i].latitude - lat)
        + (geofences[i].longitude - long) * (geofences[i].longitude - long)
            <= geofences[i].radius * geofences[i].radius}

\* sample id was classified as outside: no zone holds it, or the lookup failed
MaskedSample(id) ==
    /\ sampleLog[id].classified
    /\ ~sampleLog[id].gok \/ ZonesHolding(sampleLog[id].lat, sampleLog[id].long) = {}

InZoneSample(id) ==
    /\ sampleLog[id].classified
    /\ sampleLog[id].gok
    /\ ZonesHolding(sampleLog[id].lat, sampleLog[id].long) # {}

IsMaskedPayload(d) ==
    /\ d.latitude = -664 /\ d.longitude = 490
    /\ d.position_name = "Di Luar"
    /\ d.is_inside = FALSE

\* what a client can tell of a payload, its timestamp and the sample's number aside
Observable(d) == << d.dosen_id, d.latitude, d.longitude, d.position_name, d.is_inside >>

\* every payload, row and suspended handler derived from sample id
PayloadsOf(id) ==
    {m.data : m \in {x \in emitted.moved : x.data.hid = id}}
    \cup {m.processed : m \in {x \in emitted.ack : x.processed.hid = id}}

\* C6 as stated: for a sample outside every zone, or whose classification
\* failed, the dosen_moved payload, the acknowledgment and the persisted row
\* all carry the masked coordinates, the outside name and is_inside = false
C6_Original ==
    \A id \in DOMAIN sampleLog :
        MaskedSample(id) =>
           /\ \A d \in PayloadsOf(id) : IsMaskedPayload(d)
           /\ \A u \in DOMAIN locations :
                 locations[u].hid = id =>
                    /\ locations[u].latitude = -664 /\ locations[u].longitude = 490
                    /\ locations[u].position_name = "Di Luar"
                    /\ "is_inside" \in DOMAIN locations[u]
                    /\ locations[u].is_inside = FALSE

\* C6 (amended): for a sample outside every zone, or whose classification
\* failed, the dosen_moved payload and the acknowledgment carry the constant
\* masked coordinates, the fixed outside name and is_inside = false, and the
\* persisted row carries the masked coordinates and the outside name (a
\* locations row has no is_inside column), so any two such samples are
\* observed alike (their timestamps aside); its raw coordinates appear in no
\* broadcast, acknowledgment, locations row or history row
C6_Masking ==
    /\ \A id \in DOMAIN sampleLog :
          MaskedSample(id) =>
             /\ \A d \in PayloadsOf(id) : IsMaskedPayload(d)
             /\ \A u \in DOMAIN locations :
                   locations[u].hid = id =>
                      /\ locations[u].latitude = -664 /\ locations[u].longitude = 490
                      /\ locations[u].position_name = "Di Luar"
             /\ \A r \in history : r.hid # id
             /\ \A h \in upd : h.id = id => ~h.geo.isInside /\ h.geo.displayLat = -664
                                             /\ h.geo.displayLong = 490
    /\ \A id1, id2 \in DOMAIN sampleLog :
          MaskedSample(id1) /\ MaskedSample(id2) =>
             \A d1 \in PayloadsOf(id1), d2 \in PayloadsOf(id2) : Observable(d1) = Observable(d2)

\* a sample outside every zone was stored and a different one, whose
\* classification failed, is acknowledged: both are masked
C6_Witness ==
    \E id1, id2 \in DOMAIN sampleLog :
        /\ MaskedSample(id1) /\ sampleLog[id1].gok
        /\ MaskedSample(id2) /\ ~sampleLog[id2].gok
        /\ << sampleLog[id1].lat, sampleLog[id1].long >> # << sampleLog[id2].lat, sampleLog[id2].long >>
        /\ \E u \in DOMAIN locations : locations[u].hid = id1
        /\ \E m \in emitted.ack : m.processed.hid = id2

\* C7: for a sample within the radius of a zone (its centre and its rim
\* included), the classification is inside, with the name of the zone and
\* the raw coordinates, and the dosen_moved payload carries these values
C7_InZone ==
    \A id \in DOMAIN sampleLog :
        InZoneSample(id) =>
           LET raw == sampleLog[id]
               names == {geofences[i].name : i \in ZonesHolding(raw.lat, raw.long)}
           IN /\ \A d \in PayloadsOf(id) :
                    /\ d.is_inside = TRUE
                    /\ d.position_name \in names
                    /\ d.latitude = raw.lat /\ d.longitude = raw.long
              /\ \A h \in upd : h.id = id =>
                    /\ h.geo.isInside /\ h.geo.locationName \in names
                    /\ h.geo.displayLat = raw.lat /\ h.geo.displayLong = raw.long

\* a sample on the rim of UNSRI Indralaya (distance 5 = radius 5) is broadcast
\* as inside, under its raw coordinates
C7_Witness ==
    \E m \in emitted.moved :
        /\ sampleLog[m.data.hid].lat = 3 /\ sampleLog[m.data.hid].long = 4
        /\ m.data.is_inside /\ m.data.position_name = "UNSRI Indralaya"
        /\ m.data.latitude = 3 /\ m.data.longitude = 4

\* the first row of the table that holds the sample
FirstHolding(lat, long) ==
    CHOOSE i \in ZonesHolding(lat, long) : \A k \in ZonesHolding(lat, long) : i <= k

\* C8: classification is first-match in table order: of two zones that both
\* hold a point, the one that comes first in the table is returned, whichever
\* centre is closer, and the same point is classified alike on every call
C8_FirstMatch ==
    /\ \A id \in DOMAIN sampleLog :
          InZoneSample(id) =>
             LET raw == sampleLog[id]
                 first == geofences[FirstHolding(raw.lat, raw.long)].name
             IN /\ \A d \in PayloadsOf(id) : d.position_name = first
                /\ \A h \in upd : h.id = id => h.geo.locationName = first
    /\ \A h1, h2 \in upd :
          /\ sampleLog[h1.id].classified /\ sampleLog[h2.id].classified
          /\ h1.lat = h2.lat /\ h1.long = h2.long
          => h1.geo = h2.geo

\* a point held by A and by B, nearer to B's centre, is classified as A when
\* A comes first
C8_Witness ==
    /\ geofences = << ZoneA, ZoneB >>
    /\ \E m \in emitted.moved :
          /\ sampleLog[m.data.hid].lat = 3 /\ sampleLog[m.data.hid].long = 0
          /\ m.data.position_name = "A"

(***************************************************************************)
(* Throttles                                                               *)
(***************************************************************************)
\* C9 as stated: however the handlers interleave, a sample is written to
\* locations only if 60 s have passed since the lecturer's last written
\* sample, so any two written samples of a lecturer are 60 s apart or more
C9_Original ==
    \A d \in Dosen : \A i, k \in 1..Len(saveLog[d]) :
        i < k => saveLog[d][k] - saveLog[d][i] >= 60000

\* the rows of history the query of handler h selects from
DayOf(h) ==
    {r \in history : r.dosen_id = h.user /\ r.day_of_week = getDay(h.hnow, tz)
                     /\ r.logged_date = isoDate(h.hnow)}

C10_Step ==
    /\ \A h \in upd :
          Steps(upd, upd', h, "histGet") =>
             LET day == DayOf(h)
                 latest == {r \in day : \A x \in day : x.logged_at <= r.logged_at}
                 proceeds == \E y \in upd' : y.id = h.id /\ y.pc = "histIns"
                 skipped == \E c \in emitted'.console : c.ev = "skip_same" /\ c.hid = h.id
                 failed == \E c \in emitted'.console : c.ev = "history_error" /\ c.hid = h.id
                 want(last) == \/ last.location_name # h.geo.locationName
                               \/ h.hnow - last.logged_at >= 3600000
             IN /\ h.geo.isInside
                /\ history' = history
                /\ \/ failed /\ ~proceeds /\ ~skipped
                   \/ ~failed /\ day = {} /\ proceeds /\ ~skipped
                   \/ ~failed /\ \E last \in latest :
                         (proceeds <=> want(last)) /\ (skipped <=> ~want(last))
    \* a row is appended by the handler that decided to, and only one
    /\ history' # history =>
          \E h \in upd :
             /\ Steps(upd, upd', h, "histIns")
             /\ \E r \in history' \ history :
                   /\ history' = history \cup {r}
                   /\ r.hid = h.id /\ r.dosen_id = h.user
                   /\ r.location_name = h.geo.locationName
                   /\ r.day_of_week = getDay(h.hnow, tz) /\ r.logged_date = isoDate(h.hnow)
    /\ \A h \in upd :
          Steps(upd, upd', h, "histIns") =>
             \/ Cardinality(history') = Cardinality(history) + 1
             \/ \E c \in emitted'.console : c.ev = "history_error" /\ c.hid = h.id

\* C10: for an in-zone sample, with last the most recent history row of the
\* lecturer's weekday and date, a row is appended iff there is no such row, or
\* its zone name differs from the sample's (whatever the time elapsed), or the
\* name is the same and one hour or more has elapsed since last.logged_at;
\* otherwise nothing is appended
C10_HistoryDecision == [][C10_Step]_vars

\* two rows of one day and one zone, an hour apart: the second was appended
\* because the hour had passed
C10_Witness ==
    \E r1, r2 \in history :
        /\ r1.dosen_id = r2.dosen_id /\ r1.day_of_week = r2.day_of_week
        /\ r1.logged_date = r2.logged_date /\ r1.location_name = r2.location_name
        /\ r2.logged_at - r1.logged_at >= 3600000

(***************************************************************************)
(* History store                                                           *)
(***************************************************************************)
SameDay(r1, r2) ==
    /\ r1.dosen_id = r2.dosen_id
    /\ r1.day_of_week = r2.day_of_week
    /\ r1.logged_date = r2.logged_date

\* r2 follows r1 in logged_at order with no row of their day between them
AdjacentRows(r1, r2) ==
    /\ r1 # r2 /\ SameDay(r1, r2)
    /\ r1.logged_at <= r2.logged_at
    /\ ~\E r3 \in history :
          SameDay(r1, r3) /\ r1.logged_at < r3.logged_at /\ r3.logged_at < r2.logged_at

\* C11 as stated: in every reachable state, two history rows of one
\* (lecturer, weekday, date) that are adjacent in logged_at order have
\* different zone names or are one hour or more apart, however the
\* update_location handlers interleave
C11_Original ==
    \A r1, r2 \in history :
        AdjacentRows(r1, r2) =>
           \/ r1.location_name # r2.location_name
           \/ r2.logged_at - r1.logged_at >= 3600000

\* every history row names a zone of the table, holds coordinates inside that
\* zone, and comes from a sample classified as inside; no handler of a
\* masked sample is at the history query or insert
C12_Rows ==
    /\ \A r \in history :
          /\ InZoneSample(r.hid)
          /\ \E i \in ZonesHolding(r.latitude, r.longitude) : geofences[i].name = r.location_name
          /\ r.latitude = sampleLog[r.hid].lat /\ r.longitude = sampleLog[r.hid].long
    /\ \A h \in upd : MaskedSample(h.id) => h.pc \notin {"histGet", "histIns"}

C12_Step ==
    \* classified as outside: broadcast masked, and on to the save iff 60 s passed
    /\ \A h \in upd :
          Steps(upd, upd', h, "geofence") /\ MaskedSample(h.id)' =>
             /\ {m.to : m \in emitted'.moved} = rooms[h.user] \cap Connected
             /\ \A m \in emitted'.moved : m.data.hid = h.id /\ IsMaskedPayload(m.data)
             /\ (clock - MapGet(lastSaveTimestamps, h.user, 0) >= 60000)
                   <=> \E y \in upd' : y.id = h.id /\ y.pc = "saveGet"
             /\ history' = history
    \* the write of a masked sample stores the masked location, then the
    \* handler ends without a history query
    /\ \A h \in upd :
          Steps(upd, upd', h, "saveRun") /\ MaskedSample(h.id) =>
             /\ locations' # locations =>
                   /\ locations'[h.user].hid = h.id
                   /\ locations'[h.user].latitude = -664 /\ locations'[h.user].longitude = 490
                   /\ locations'[h.user].position_name = "Di Luar"
             /\ ~\E y \in upd' : y.id = h.id
             /\ \E c \in emitted'.console : c.ev = "skip_outside" /\ c.hid = h.id
             /\ history' = history

\* C12: a sample classified as outside never produces a history row and the
\* history store is not queried for it, while it is broadcast and, when 60 s
\* have passed since the last save, persisted with the masked location; so
\* every history row has the name of a configured zone and coordinates
\* inside it
C12_OutsideNotLogged == []C12_Rows /\ [][C12_Step]_vars

\* an out-of-zone sample was persisted masked and its handler ended with the
\* history skipped: no row was written
C12_Witness ==
    \E id \in DOMAIN sampleLog :
        /\ MaskedSample(id) /\ sampleLog[id].gok
        /\ \E u \in DOMAIN locations : locations[u].hid = id /\ locations[u].latitude = -664
        /\ \E c \in emitted.console : c.ev = "skip_outside" /\ c.hid = id
        /\ history = {}

C13_Step ==
    /\ history \subseteq history'
    /\ history' # history =>
          \E r \in history' \ history :
             /\ history' = history \cup {r}
             /\ \A x \in history : x.id # r.id
             /\ \E h \in upd : Steps(upd, upd', h, "histIns") /\ r.hid = h.id

\* C13: the history store is append-only: a history write inserts one new row
\* with a fresh id, and no operation (sample handling, join, leave, connect,
\* disconnect, timeout) modifies or deletes a row, so the set of rows only
\* grows
C13_AppendOnly == [][C13_Step]_vars

\* two rows of one lecturer, day and zone, an hour apart: the second was
\* appended, the first is still there
C13_Witness ==
    \E r1, r2 \in history :
        /\ r1.id # r2.id /\ SameDay(r1, r2)
        /\ r1.location_name = r2.location_name
        /\ r1.logged_at < r2.logged_at

(***************************************************************************)
(* Errors                                                                  *)
(***************************************************************************)
\* the registry, the rooms, the throttle state, the stores and the timers
EngineState ==
    << onlineDosenMap, onlineUsersMap, rooms, lastSaveTimestamps, perms, locations,
       history, socks, upd, joins, reqs, statusLog, saveLog >>

\* nothing is sent to any connection
NoEvents(out) ==
    /\ out.moved = {} /\ out.snap = {} /\ out.status = {} /\ out.ack = {}
    /\ out.joined = {} /\ out.err = {}

C14_Step ==
    \* a refused handshake: its token was absent, rejected, or of a user that
    \* does not exist (or could not be read); nothing changes, nothing is sent
    /\ \A m \in emitted'.auth :
          /\ \/ m.token.kind \in {"absent", "invalid"}
             \/ m.token.id \notin Users
             \/ m.message = "Invalid authentication token"
          /\ EngineState' = EngineState
          /\ NoEvents(emitted')
    \* the connection handler runs only for a user of the table
    /\ Len(socks') > Len(socks) =>
          /\ socks'[Len(socks')].user \in Users
          /\ emitted'.auth = {}

\* C14: a handshake whose token is absent, rejected by verification, or of an
\* identity that no longer exists is refused: the connection handler never
\* runs for it, and the presence registry, the rooms, the throttle state, the
\* stores and the inactivity timers are unchanged; no status is broadcast
C14_AuthFailure == [][C14_Step]_vars

\* a lecturer is online with a running timer when the handshake of a deleted
\* user is refused
C14_Witness ==
    /\ \E m \in emitted.auth : m.token.id = "gone" /\ m.message = "User not found"
    /\ \E d \in Dosen : isUserOnline(d) /\ \E s \in ActiveConns(d) : socks[s].timer # 0

ValidationErrors ==
    {"Latitude and longitude are required", "Invalid coordinate format",
     "Failed to update location"}

\* what a sample may change: the stores, the throttle state, the handlers
SampleState ==
    << locations, history, lastSaveTimestamps, saveLog, upd, sampleLog, nEvents, rooms >>

C15_Step ==
    \A e \in emitted'.err :
        e.message \in ValidationErrors =>
           /\ emitted'.err = {e}
           /\ role(socks[e.to].user) = "dosen" /\ e.to \in Connected
           /\ emitted'.moved = {} /\ emitted'.ack = {} /\ emitted'.snap = {}
           /\ emitted'.status = {}
           /\ SampleState' = SampleState

\* only numeric samples are ever handled
C15_Handled == \A id \in DOMAIN sampleLog : sampleLog[id].kind = "number"

\* C15: an update_location whose latitude or longitude is missing or not a
\* number yields an error to the sending connection only and has no further
\* effect: no dosen_moved, no locations write, no history row, no change of
\* the last-save timestamp, no location_updated
C15_InvalidSample == []C15_Handled /\ [][C15_Step]_vars

\* a string coordinate is refused while an earlier sample is stored
C15_Witness ==
    /\ \E e \in emitted.err : e.message = "Invalid coordinate format"
    /\ \E u \in DOMAIN lastSaveTimestamps : u \in DOMAIN locations

\* what an event may change besides its own handler: the registry, the
\* rooms, the throttle state and the stores
SharedState ==
    << onlineDosenMap, onlineUsersMap, rooms, lastSaveTimestamps, perms, locations,
       history, statusLog, saveLog >>

\* only the error e is sent
OnlyError(out, e) ==
    /\ out.err = {e}
    /\ out.moved = {} /\ out.snap = {} /\ out.status = {} /\ out.ack = {} /\ out.joined = {}

C16_Step ==
    /\ \A e \in emitted'.err :
          /\ e.message = "Only dosen can update location" =>
                /\ role(socks[e.to].user) # "dosen"
                /\ OnlyError(emitted', e)
                /\ SharedState' = SharedState /\ upd' = upd /\ joins' = joins
          /\ e.message = "Only mahasiswa can join dosen tracking rooms" =>
                /\ role(socks[e.to].user) # "mahasiswa"
                /\ OnlyError(emitted', e)
                /\ SharedState' = SharedState /\ upd' = upd /\ joins' = joins
    \* a join that names no lecturer of the users table
    /\ \A j \in joins :
          Steps(joins, joins', j, "permission") /\ j.dosen \notin Users =>
             /\ ~\E y \in joins' : y.id = j.id
             /\ j.sock \in Connected =>
                   \E e \in emitted'.err : e.to = j.sock /\ OnlyError(emitted', e)
             /\ emitted'.moved = {} /\ emitted'.snap = {} /\ emitted'.joined = {}
             /\ SharedState' = SharedState /\ upd' = upd

\* samples are handled for lecturers only, joins for students only, and no
\* join of an unknown lecturer gets past the permission query
C16_Handlers ==
    /\ \A h \in upd : role(h.user) = "dosen"
    /\ \A j \in joins : role(j.user) = "mahasiswa"
    /\ \A j \in joins : j.dosen \notin Users => j.pc = "permission"
    /\ \A d \in Dosen : \A s \in rooms[d] : socks[s].user = d \/ role(socks[s].user) = "mahasiswa"

\* C16: update_location from a connection that is no lecturer,
\* join_dosen_room from a connection that is no student, and join_dosen_room
\* naming an unknown lecturer id each yield an error to the sender and cause
\* no broadcast, no membership change, no locations or history write and no
\* change of the throttle state
C16_RoleErrors == []C16_Handlers /\ [][C16_Step]_vars

\* the join of a student to an unknown lecturer is refused while the student
\* is a member of a real lecturer's room
C16_Witness ==
    /\ \E e \in emitted.err :
          /\ e.message = "Access denied. You do not have permission to track this dosen."
          /\ e.to \in rooms["d1"]
          /\ role(socks[e.to].user) = "mahasiswa"
    /\ \E <<s, d>> \in refused : d = "gone"

(***************************************************************************)
(* Join snapshot                                                           *)
(***************************************************************************)
\* every event of a step goes to socket s
OnlyTo(out, s) ==
    /\ \A m \in out.moved \cup out.snap \cup out.status \cup out.err
                \cup out.ack \cup out.joined : m.to = s

C17_Step ==
    \A j \in joins :
       /\ Steps(joins, joins', j, "permission")
          /\ PermissionStatus(j.user, j.dosen) = "approved" =>
             /\ rooms' = [rooms EXCEPT ![j.dosen] = @ \cup {j.sock}]
             /\ NoEvents(emitted')
       /\ Steps(joins, joins', j, "dosen") =>
             LET online == ActiveConns(j.dosen) # {}
                 here == IF j.sock \in Connected THEN {j.sock} ELSE {}
             IN /\ {m.to : m \in emitted'.status} = here
                /\ \A m \in emitted'.status :
                      m.dosen_id = j.dosen /\ m.is_online = online /\ ~m.global
                /\ emitted'.moved = {} /\ emitted'.snap = {} /\ emitted'.err = {}
                /\ online <=> \E y \in joins' : y.id = j.id /\ y.pc = "location"
                /\ {m.to : m \in emitted'.joined} = IF online THEN {} ELSE here
                /\ OnlyTo(emitted', j.sock)
                /\ SharedState' = SharedState
       /\ Steps(joins, joins', j, "location") =>
             LET here == IF j.sock \in Connected THEN {j.sock} ELSE {}
                 row == j.dosen \in DOMAIN locations
             IN /\ {m.to : m \in emitted'.snap} = IF row THEN here ELSE {}
                /\ Cardinality(emitted'.snap) <= 1
                /\ \A m \in emitted'.snap :
                      /\ m.dosen_id = j.dosen
                      /\ m.latitude = locations[j.dosen].latitude
                      /\ m.longitude = locations[j.dosen].longitude
                      /\ m.position_name = locations[j.dosen].position_name
                      /\ m.last_updated = locations[j.dosen].last_updated
                /\ {m.to : m \in emitted'.joined} = here
                /\ emitted'.moved = {} /\ emitted'.status = {} /\ emitted'.err = {}
                /\ OnlyTo(emitted', j.sock)
                /\ ~\E y \in joins' : y.id = j.id
                /\ SharedState' = SharedState

\* C17: a join that finds the approval adds the connection to the lecturer's
\* room and delivers to that connection only: a dosen_status with is_online
\* equal to the lecturer's presence at that instant, then, iff the lecturer
\* was online and a locations row exists, one dosen_moved with the persisted
\* location, then room_joined; no other connection receives anything
C17_JoinSnapshot == [][C17_Step]_vars

\* the location snapshot and room_joined reach a student who is a member of
\* the room, while a lecturer connection is there and receives nothing
C17_Witness ==
    \E m \in emitted.snap :
        /\ m.to \in rooms[m.dosen_id]
        /\ \E x \in emitted.joined : x.to = m.to
        /\ ActiveConns(m.dosen_id) # {}
        /\ m.latitude = 0 /\ m.position_name = "UNSRI Indralaya"

(***************************************************************************)
(* Leaving a room                                                          *)
(***************************************************************************)
C18_Step ==
    \* the leave itself: the sender is out of the named room, nothing else of
    \* the rooms changes and no error is sent
    /\ \A c \in emitted'.console : c.ev = "left" =>
          /\ c.dosen_id \in DOMAIN rooms =>
                rooms' = [rooms EXCEPT ![c.dosen_id] = @ \ {c.sock}]
          /\ c.dosen_id \notin DOMAIN rooms => rooms' = rooms
          /\ NoEvents(emitted')
          /\ SharedState' = [SharedState EXCEPT ![3] = rooms']
    \* after it: a join of that room sent before the leave neither makes the
    \* connection a member again nor delivers a dosen_moved to it
    /\ \A j \in joins : j.left /\ j.sock \notin rooms[j.dosen] =>
          /\ Steps(joins, joins', j, "permission") => j.sock \notin rooms'[j.dosen]
          /\ Steps(joins, joins', j, "location") =>
                ~\E m \in emitted'.snap : m.to = j.sock

\* C18: leave_dosen_room removes the sender from the named room and nothing
\* else, without an error, also when the room is unknown or was never joined;
\* after the leave the connection is not a member and receives no further
\* dosen_moved of that lecturer
C18_Original == [][C18_Step]_vars

Expired(s) == s \in Connected /\ socks[s].timer # 0 /\ clock >= socks[s].timer

\* the connections an inbound event of this step came from, told by what the
\* handlers answer: an error of a handler's entry, or the console line of a leave
EventSenders(out) ==
    {e.to : e \in {x \in out.err : x.message \in ValidationErrors \cup
                      {"Only dosen can update location", "dosen_id is required",
                       "Only mahasiswa can join dosen tracking rooms"}}}
    \cup {c.sock : c \in {x \in out.console : x.ev = "left"}}

C20_Step ==
    \* the watchdog disconnects lecturer connections only, after a full quiet
    \* window; the connection leaves the presence maps, and offline goes to
    \* everybody when it was the lecturer's last one
    /\ \A c \in emitted'.console : c.ev = "inactivity" =>
          LET u == socks[c.sock].user
          IN /\ role(u) = "dosen"
             /\ clock >= socks[c.sock].timer
             /\ ~socks'[c.sock].connected
             /\ c.sock \notin MapGet(onlineUsersMap', u, {})
             /\ c.sock \notin MapGet(onlineDosenMap', u, {})
             /\ (ActiveConns(u) = {c.sock}) =>
                   /\ statusLog'[u] = Append(statusLog[u], FALSE)
                   /\ {m.to : m \in GlobalStatus(emitted', u)} = Connected'
                   /\ \A m \in GlobalStatus(emitted', u) : ~m.is_online
             /\ (ActiveConns(u) # {c.sock}) => GlobalStatus(emitted', u) = {}
    \* an inbound event of any name restarts the full window of a lecturer
    /\ \A s \in EventSenders(emitted') :
          role(socks[s].user) = "dosen" => socks'[s].timer = clock + INACTIVITY_MS

\* students and admins have no timer
C20_NoTimer == \A s \in Connected : role(socks[s].user) # "dosen" => socks[s].timer = 0

Returned(h) == ~\E y \in upd' : y.id = h.id

C21_Step ==
    \A h \in upd :
       LET save == Steps(upd, upd', h, "saveGet") \/ Steps(upd, upd', h, "saveRun")
           hist == Steps(upd, upd', h, "histGet") \/ Steps(upd, upd', h, "histIns")
           saveOver == save /\ ~\E y \in upd' : y.id = h.id /\ y.pc = "saveRun"
       IN /\ save \/ hist =>
                \* the broadcast was made before; no error, nobody is disconnected
                /\ sampleLog[h.id].classified
                /\ emitted'.err = {} /\ emitted'.moved = {}
                /\ socks' = socks
                /\ emitted'.ack =
                      IF Returned(h)
                      THEN {[to |-> t, success |-> TRUE,
                             processed |-> Payload(h, h.geo, h.now)]
                              : t \in {h.sock} \cap Connected}
                      ELSE {}
          \* whatever the outcome of saveLocation, logLocationToHistory runs
          /\ save => history' = history
          /\ saveOver =>
                IF h.geo.isInside
                THEN \E y \in upd' : y.id = h.id /\ y.pc = "histGet"
                ELSE Returned(h)
          \* whatever the outcome of logLocationToHistory, the row saved stays
          /\ hist => /\ locations' = locations /\ saveLog' = saveLog
                      /\ lastSaveTimestamps' = lastSaveTimestamps

\* C21: a failure of the location store or of the history store while a valid
\* sample is handled is swallowed: the broadcast was made before, the sender
\* gets location_updated with success and no error, the history step runs
\* whatever the save did and leaves the saved row alone, and no connection
\* is closed
C21_StoreFailure == [][C21_Step]_vars

\* the history store failed for a sample whose row was saved, and the sender
\* is acknowledged
C21_Witness ==
    \E c \in emitted.console :
        /\ c.ev = "history_error"
        /\ \E a \in emitted.ack : a.processed.hid = c.hid /\ a.success
        /\ c.dosen_id \in DOMAIN locations /\ locations[c.dosen_id].hid = c.hid

(***************************************************************************)
(* Error paths                                                             *)
(***************************************************************************)
\* C22: no client event, whatever its payload, and no failure of a handler
\* closes a connection or ends the server process
C22_Original == [][Connected \subseteq Connected' /\ ~exited']_vars

(***************************************************************************)
(* Connection life cycle                                                   *)
(***************************************************************************)
\* the connections registered in a presence Map
Registered(m) == UNION {m[u] : u \in DOMAIN m}

C23_Step ==
    \* a connection is created Active and registered in the same step
    /\ \A s \in Sids' \ Sids :
          /\ socks'[s].connected
          /\ role(socks'[s].user) # "admin" => s \in MapGet(onlineUsersMap', socks'[s].user, {})
    \* presence connect happens on entry to Active only, presence disconnect on
    \* entry to Disconnected
    /\ \A s \in Sids :
          /\ s \notin Registered(onlineUsersMap) => s \notin Registered(onlineUsersMap')
          /\ s \notin Registered(onlineDosenMap) => s \notin Registered(onlineDosenMap')
          /\ socks[s].connected /\ ~socks'[s].connected =>
                s \notin Registered(onlineUsersMap') \cup Registered(onlineDosenMap')
          /\ socks[s].connected /\ socks'[s].connected =>
                (s \in Registered(onlineUsersMap') <=> s \in Registered(onlineUsersMap))
    \* Disconnected is terminal: no way back to Active, to the registry or
    \* into a room
    /\ \A s \in Sids : ~socks[s].connected =>
          /\ ~socks'[s].connected
          /\ \A d \in DOMAIN rooms : s \notin rooms[d] => s \notin rooms'[d]

Approved(student, lecturer) ==
    <<student, lecturer>> \in DOMAIN perms /\ perms[<<student, lecturer>>] = "approved"

C24_Step ==
    \* a lecturer's request reads the lecturer's own rows; a student's request
    \* starts at the permission query; no other role gets further
    /\ \A q \in reads' : (\A q0 \in reads : q0.id # q.id) =>
          /\ role(q.user) = "dosen" => q.dosen = q.user
          /\ role(q.user) = "mahasiswa" => q.pc = "permission"
          /\ role(q.user) \in {"dosen", "mahasiswa"}
    /\ \A q \in reads :
          \* without an approved permission the request ends there, refused
          /\ Steps(reads, reads', q, "permission") /\ ~Approved(q.user, q.dosen) =>
                /\ (\A y \in reads' : y.id # q.id)
                /\ \A r \in emitted'.http : r.status # 200 /\ r.logs = {}
          \* the answer holds the rows of the lecturer asked for, and no others
          /\ Steps(reads, reads', q, "rows") =>
                \A r \in emitted'.http :
                    /\ r.status = 200 => r.dosen_id = q.dosen
                    /\ \A row \in r.logs : row.dosen_id = q.dosen /\ row \in history
          \* a student's request reaches the rows through both queries
          /\ q.pc # "rows" =>
                \A q1 \in reads' : q1.id = q.id /\ q1.pc = "rows" => q.pc = "dosen"
          /\ q.pc = "permission" =>
                \A q1 \in reads' : q1.id = q.id /\ q1.pc = "dosen" =>
                    Approved(q.user, q.dosen)
    \* rows leave the server in the last step of a request only
    /\ (\E r \in emitted'.http : r.status = 200 /\ "logs" \in DOMAIN r) =>
          \E q \in reads : Steps(reads, reads', q, "rows")

\* C24: a lecturer reads only the lecturer's own history; a student's request
\* returns records only when the permission query of that request found the
\* approved permission (student, lecturer); with a pending, rejected or
\* missing permission the request is refused and returns no record
C24_HistoryAccess == [][C24_Step]_vars

\* an approved student is answered with rows of lecturer d1 while lecturer
\* d2 has rows too
C24_Witness ==
    \E r \in emitted.http :
        /\ r.status = 200 /\ "logs" \in DOMAIN r
        /\ r.dosen_id = "d1" /\ r.logs # {}
        /\ \E row \in history : row.dosen_id = "d2"
        /\ \A q \in reads : q.id # r.req

(***************************************************************************)
(* Joining while the permission changes                                    *)
(***************************************************************************)
C25_Step ==
    \* the step that makes a student connection a member finds the approved
    \* permission in the table and leaves the table alone
    /\ \A d \in Dosen : \A s \in (rooms'[d] \ rooms[d]) \cap Sids :
          role(socks[s].user) = "mahasiswa" =>
             Approved(socks[s].user, d) /\ perms' = perms
    \* a join whose query comes back after the rejection adds nothing
    /\ \A j \in joins :
          Steps(joins, joins', j, "permission") /\ ~Approved(j.user, j.dosen) =>
             j.sock \notin rooms'[j.dosen] \ rooms[j.dosen]

C26_Step ==
    \* a change of a permission changes no membership
    /\ perms' # perms => rooms' = rooms
    \* a connected student connection stops being a member only by its own
    \* leave_dosen_room or by disconnecting
    /\ \A d \in Dosen : \A s \in (rooms[d] \ rooms'[d]) \cap Connected :
          \/ ~socks'[s].connected
          \/ \E c \in emitted'.console : c.ev = "left" /\ c.sock = s /\ c.dosen_id = d
    \* every dosen_moved of a sample goes to every connected member, whatever
    \* the member's permission is by now
    /\ \A h \in upd : Steps(upd, upd', h, "geofence") =>
          {m.to : m \in emitted'.moved} = rooms[h.user] \cap Connected

\* C26: a membership is not validated again: rejecting the permission
\* (student, lecturer) after a successful join removes no membership, and the
\* student connection receives every dosen_moved of the lecturer until it
\* sends leave_dosen_room or disconnects
C26_NotRevalidated == [][C26_Step]_vars

\* a dosen_moved reaches a student whose permission has been rejected
C26_Witness ==
    \E m \in emitted.moved :
        /\ role(socks[m.to].user) = "mahasiswa"
        /\ perms[<<socks[m.to].user, m.data.dosen_id>>] = "rejected"

(***************************************************************************)
(* Two samples of one connection                                           *)
(***************************************************************************)
\* how far a handler of update_location has come: the step it waits for
Progress(pc) ==
    CASE pc = "geofence" -> 1 [] pc = "saveGet" -> 2 [] pc = "saveRun" -> 3
      [] pc = "histGet" -> 4 [] pc = "histIns" -> 5

C27_Step ==
    \A h1, h2 \in upd :
       (/\ h1.sock = h2.sock /\ h1.id < h2.id
        /\ Steps(upd, upd', h2, h2.pc)) =>
          \* the earlier sample is past the step the later one takes, and the
          \* later one is not acknowledged while the earlier one is under way
          /\ Progress(h1.pc) > Progress(h2.pc)
          /\ ~Returned(h2)

\* C27: of two update_location events received in that order on one
\* connection, the broadcast, the persistence decision, the history decision
\* and the acknowledgment of the first each come before those of the second
C27_Original == [][C27_Step]_vars

(***************************************************************************)
(* The steps of one sample                                                 *)
(***************************************************************************)
\* the steps a handler of update_location may take next
After(pc) ==
    CASE pc = "geofence" -> {"saveGet", "histGet"}
      [] pc = "saveGet" -> {"saveRun", "histGet"}
      [] pc = "saveRun" -> {"histGet"}
      [] pc = "histGet" -> {"histIns"}
      [] pc = "histIns" -> {}

\* the terminal events of this step for connection s
Terminal(out, s) == {a \in out.ack : a.to = s} \cup {e \in out.err : e.to = s}

C28_Step ==
    \* broadcast, then saveLocation, then logLocationToHistory, then the
    \* acknowledgment, which ends the handler
    /\ \A h \in upd :
          /\ \A h2 \in upd' : h2.id = h.id /\ h2.pc # h.pc => h2.pc \in After(h.pc)
          /\ Steps(upd, upd', h, h.pc) =>
                /\ (emitted'.moved # {}) => h.pc = "geofence"
                /\ (locations' # locations) => h.pc = "saveRun"
                /\ (lastSaveTimestamps' # lastSaveTimestamps) => h.pc \in {"saveGet", "saveRun"}
                /\ (history' # history) => h.pc = "histIns"
                /\ h.sock \in Connected =>
                      Cardinality(Terminal(emitted', h.sock)) = IF Returned(h) THEN 1 ELSE 0
                /\ emitted'.err = {}
                \* the payload acknowledged is the payload broadcast
                /\ \A h2 \in upd' : h2.id = h.id =>
                      IF h.pc = "geofence"
                      THEN \A m \in emitted'.moved : m.data = Payload(h2, h2.geo, h2.now)
                      ELSE h2.geo = h.geo /\ h2.now = h.now
                /\ \A a \in emitted'.ack :
                      /\ a.success
                      /\ IF h.pc = "geofence"
                         THEN \A m \in emitted'.moved : m.data = a.processed
                         ELSE a.processed = Payload(h, h.geo, h.now)
    \* an event that starts no handler is answered with one error at once
    /\ nEvents' = nEvents =>
          \A e \in emitted'.err : e.message \in ValidationErrors \cup
                {"Only dosen can update location"} => Cardinality(emitted'.err) = 1
    /\ \A h \in upd' : (\A h0 \in upd : h0.id # h.id) =>
          h.pc = "geofence" /\ Terminal(emitted', h.sock) = {}

C29_Step ==
    \A j \in joins : Steps(joins, joins', j, "location") =>
       \A m \in emitted'.snap :
          m.to = j.sock => locations[j.dosen].hid >= j.live

\* C29: the dosen_moved of the join snapshot is never the location of an
\* older sample than one whose live dosen_moved the subscriber has received
\* already
C29_Original == [][C29_Step]_vars

(***************************************************************************)
(* The two throttles                                                       *)
(***************************************************************************)
\* handler h waits at step pc after this transition
NowAt(h, pc) == \E y \in upd' : y.id = h.id /\ y.pc = pc

C30_Step ==
    \A h \in upd :
       \* persistence: decided by the time since the last save alone
       /\ Steps(upd, upd', h, "geofence") =>
             LET elapsed == clock - MapGet(lastSaveTimestamps, h.user, 0)
             IN /\ NowAt(h, "saveGet") <=> elapsed >= LOCATION_SAVE_THROTTLE_MS
                \* a suppressed sample goes on to the history unless it is outside
                /\ ~NowAt(h, "saveGet") =>
                      \/ NowAt(h, "histGet") /\ \A y \in upd' : y.id = h.id => y.geo.isInside
                      \/ /\ Returned(h)
                         /\ \E c \in emitted'.console : c.ev = "skip_outside" /\ c.hid = h.id
       \* a saved sample goes on to the history in the same way
       /\ (Steps(upd, upd', h, "saveGet") \/ Steps(upd, upd', h, "saveRun"))
             /\ ~NowAt(h, "saveRun") =>
                IF h.geo.isInside THEN NowAt(h, "histGet") ELSE Returned(h)
       \* history: decided by the zone and the latest row of the day alone
       /\ Steps(upd, upd', h, "histGet") =>
             LET day == DayOf(h)
                 latest == {r \in day : \A x \in day : x.logged_at <= r.logged_at}
                 changed(last) == last.location_name # h.geo.locationName
                 hour(last) == h.hnow - last.logged_at >= LOCATION_LOG_THROTTLE_MS
             IN /\ NowAt(h, "histIns") =>
                      day = {} \/ \E last \in latest : changed(last) \/ hour(last)
                /\ (\E c \in emitted'.console : c.ev = "skip_same" /\ c.hid = h.id) =>
                      \E last \in latest : ~changed(last) /\ ~hour(last)

\* C30: the two throttles are independent: a sample is persisted depending
\* on the lecturer's last-save timestamp alone, and logged depending on its
\* zone and the latest history row of the day alone; a sample the 60 s
\* throttle suppressed is still logged when the zone changed, and a sample
\* that is persisted is not logged when the same zone was logged within the hour
C30_Independent == [][C30_Step]_vars

\* the second sample, in another zone, was suppressed by the persistence
\* throttle (the row of locations is that of the first) and was logged
C30_Witness ==
    /\ upd = {}
    /\ \E r1, r2 \in history :
          /\ r1.dosen_id = r2.dosen_id /\ r1.hid < r2.hid
          /\ r1.location_name # r2.location_name
          /\ r1.dosen_id \in DOMAIN locations
          /\ locations[r1.dosen_id].hid = r1.hid
          /\ MapGet(lastSaveTimestamps, r1.dosen_id, 0) = clock
          /\ Len(saveLog[r1.dosen_id]) = 1

(***************************************************************************)
(* The locations table                                                     *)
(***************************************************************************)
\* a write of saveLocation is performed in this step, for handler h
Written(h) ==
    /\ Steps(upd, upd', h, "saveRun")
    /\ saveLog'[h.user] = Append(saveLog[h.user], h.now)

C31_Rows ==
    \A d \in Dosen : /\ inserted[d] <= 1
                     /\ d \in DOMAIN locations <=> inserted[d] = 1

C31_Step ==
    \A h \in upd :
       /\ Written(h) =>
             /\ h.user \in DOMAIN locations'
             /\ locations'[h.user].hid = h.id
             /\ locations'[h.user].latitude = h.geo.displayLat
             /\ locations'[h.user].longitude = h.geo.displayLong
             /\ locations'[h.user].position_name = h.geo.locationName
       \* an INSERT that finds the row another handler has inserted meanwhile
       \* is refused and leaves that row
       /\ Steps(upd, upd', h, "saveRun") /\ ~h.existing /\ h.user \in DOMAIN locations =>
             locations' = locations /\ inserted' = inserted

\* C31: the locations table never holds more than one row of a lecturer, and
\* after a write that was performed the row holds that sample's display
\* location, also when two writes of one lecturer overlap
C31_OneRow == [](C31_Rows) /\ [][C31_Step]_vars

\* two handlers found no row; the first has inserted its own, the second,
\* of another display location, is about to INSERT
C31_Witness ==
    \E h \in upd :
       /\ h.pc = "saveRun" /\ ~h.existing
       /\ h.user \in DOMAIN locations
       /\ locations[h.user].hid # h.id
       /\ locations[h.user].position_name # h.geo.locationName

(***************************************************************************)
(* Ownership of the inactivity timers                                      *)
(***************************************************************************)
\* the pending timer of connection s: its deadline, 0 when none is pending
Deadline(s) == socks[s].timer

C32_Timers ==
    \A s \in Sids :
       /\ s \in Connected /\ role(socks[s].user) = "dosen" =>
             /\ Deadline(s) # 0
             /\ Deadline(s) <= clock + INACTIVITY_MS
       /\ role(socks[s].user) # "dosen" => Deadline(s) = 0
       /\ s \notin Connected => Deadline(s) = 0

C32_Step ==
    /\ \A c \in emitted'.console : c.ev = "inactivity" =>
          /\ c.sock \in Connected /\ Deadline(c.sock) # 0
          /\ c.sock \notin Connected' /\ socks'[c.sock].timer = 0
    \* a connection that closes, for whatever cause, loses its timer and no other does
    /\ \A s \in Connected \ Connected' : socks'[s].timer = 0
    /\ \A s \in Connected \cap Connected' :
          socks'[s].timer # socks[s].timer => s \in EventSenders(emitted')

\* C32: every active lecturer connection has a pending inactivity deadline
\* (one: the handle kept on the socket), a connection of another role has
\* none, and a disconnected connection has none, whether the transport closed
\* or the deadline fired; so a deadline fires for active connections only
C32_TimerOwnership == [](C32_Timers) /\ [][C32_Step]_vars

\* the deadline of a lecturer connection has just fired, 40 s after the
\* connection was made (an event had restarted it), while a student, who has
\* none, stays connected
C32_Witness ==
    /\ \E c \in emitted.console :
          /\ c.ev = "inactivity"
          /\ c.sock \notin Connected /\ Deadline(c.sock) = 0
    /\ clock = Clock0 + 40000
    /\ \E s \in Connected : role(socks[s].user) = "mahasiswa" /\ Deadline(s) = 0

(***************************************************************************)
(* The presence operations called twice                                    *)
(***************************************************************************)
\* this step is a presence operation for a connection that was registered,
\* or removed, before: no socket is created and none closes
Repeated == socks' = socks

\* C33 as stated: connect called again for a registered (identity,
\* connection) pair, and disconnect called again for a pair, or called for a
\* connection id that is absent, leave the registry as it was and signal
\* neither became-online nor became-offline again
C33_Original ==
    [][Repeated => /\ onlineDosenMap' = onlineDosenMap
                   /\ onlineUsersMap' = onlineUsersMap
                   /\ emitted'.status = {}
                   /\ statusLog' = statusLog]_vars

(***************************************************************************)
(* A write to locations that fails                                         *)
(***************************************************************************)
\* the write of handler h fails in this step
WriteFails(h) ==
    /\ Steps(upd, upd', h, "saveGet") \/ Steps(upd, upd', h, "saveRun")
    /\ failLog'[h.user] # failLog[h.user]

C34_Step ==
    \A h \in upd :
       \* the failed write takes the window and is not tried again
       /\ WriteFails(h) =>
             /\ lastSaveTimestamps' = MapSet(lastSaveTimestamps, h.user, h.now)
             /\ locations' = locations
             /\ ~NowAt(h, "saveGet") /\ ~NowAt(h, "saveRun")
       \* a sample that meets the throttle test after a write failed is not
       \* written within 60 s of the failed sample
       /\ Steps(upd, upd', h, "geofence") /\ NowAt(h, "saveGet") =>
             \A t \in failLog[h.user] : clock - t >= LOCATION_SAVE_THROTTLE_MS

\* C34 as stated: a write to locations that fails still advances the
\* lecturer's last-save timestamp to the time of its sample, so that no
\* further write is attempted for the lecturer within the next 60 s, and the
\* failed write is not tried again
C34_Original == [][C34_Step]_vars

(***************************************************************************)
(* The key of the throttle state                                           *)
(***************************************************************************)
\* what the stores hold of lecturer d
StoredOf(d, ts, locs, rows) ==
    << MapGet(ts, d, 0), MapGet(locs, d, NoLog), {r \in rows : r.dosen_id = d} >>

C35_Step ==
    \* the throttle test reads the lecturer's timestamp, whichever connection
    \* the sample came from and whichever connection set the timestamp
    /\ \A h \in upd : Steps(upd, upd', h, "geofence") =>
          (NowAt(h, "saveGet") <=>
              clock - MapGet(lastSaveTimestamps, h.user, 0) >= LOCATION_SAVE_THROTTLE_MS)
    \* connections that open and close leave the timestamps
    /\ Connected' # Connected => lastSaveTimestamps' = lastSaveTimestamps
    \* what is stored of a lecturer changes only in a step of a sample of his
    /\ \A d \in Dosen :
          StoredOf(d, lastSaveTimestamps', locations', history')
             # StoredOf(d, lastSaveTimestamps, locations, history)
          => \E h \in upd : h.user = d /\ h \notin upd'

\* C35: the throttle state is kept per lecturer id: the connections of a
\* lecturer share one 60 s window, which outlives their closing, and a
\* sample of one lecturer changes neither the timestamp, nor the row of
\* locations, nor the history of another
C35_KeyedByLecturer == [][C35_Step]_vars

\* a second connection of d1, made after the one that wrote had closed, has
\* its sample suppressed 10 s after that write; nothing is stored of d2, who
\* is connected
C35_Witness ==
    /\ \E c \in emitted.ack : \E s \in Sids \ Connected :
          /\ socks[c.to].user = "d1" /\ socks[s].user = "d1"
          /\ "d1" \in DOMAIN locations
          /\ locations["d1"].hid # c.processed.hid
          /\ clock = MapGet(lastSaveTimestamps, "d1", 0) + 10000
    /\ \E s \in Connected : socks[s].user = "d2"
    /\ StoredOf("d2", lastSaveTimestamps, locations, history) = << 0, NoLog, {} >>

(***************************************************************************)
(* The day of a history row                                                *)
(***************************************************************************)
\* the weekday (0 = Sunday) of a calendar date given as a day number
WeekdayOf(date) == (date + 4) % 7

\* the key a handler looks the day's rows up under
DayKey(h) == << getDay(h.hnow, tz), isoDate(h.hnow) >>

\* C36 as stated: the day_of_week of every history row is the weekday of its
\* logged_date, and two in-zone samples handled at the same instant are
\* looked up under the same (day_of_week, logged_date), at every time of day
\* and with every offset of the server's time zone
C36_Original ==
    /\ \A r \in history : r.day_of_week = WeekdayOf(r.logged_date)
    /\ \A h1, h2 \in upd :
          h1.pc = "histIns" /\ h2.pc = "histIns" /\ h1.hnow = h2.hnow
          => DayKey(h1) = DayKey(h2)

(***************************************************************************)
(* The rows of tracking_permissions                                        *)
(***************************************************************************)
\* call q waits at step pc after this transition
NowAt2(q, pc) == \E y \in reqs' : y.id = q.id /\ y.pc = pc

\* the answer to call q in this step has this status
Answers(q, code) == \E r \in emitted'.http : r.req = q.id /\ r.status = code

C37_Status ==
    \A p \in DOMAIN perms : perms[p] \in {"none", "pending", "approved", "rejected"}

C37_Step ==
    /\ \A q \in reqs :
          \* a row is inserted for a pair that has none; an INSERT for a pair that
          \* has one by then is refused and leaves it
          /\ Steps(reqs, reqs', q, "insert") =>
                IF Answers(q, 201)
                THEN /\ perms[q.permission] = "none"
                     /\ perms' = [perms EXCEPT ![q.permission] = q.action]
                ELSE Answers(q, 500) /\ perms' = perms
          \* a request for a pair that has a row is refused
          /\ Steps(reqs, reqs', q, "accessExisting") /\ perms[q.permission] # "none" =>
                (Answers(q, 409) \/ Answers(q, 500)) /\ perms' = perms
          \* the admin's UPDATE changes the row of the pair and adds none
          /\ Steps(reqs, reqs', q, "assignUpdate") =>
                \/ Answers(q, 500) /\ perms' = perms
                \/ /\ Answers(q, 200) /\ perms[q.permission] # "none"
                   /\ perms' = [perms EXCEPT ![q.permission] = "approved"]
    \* a pair gets its row by an INSERT that was answered 201, and keeps it
    /\ \A p \in DOMAIN perms :
          /\ perms[p] = "none" /\ perms'[p] # "none" =>
                \E q \in reqs : q.permission = p /\ q.pc = "insert" /\ Answers(q, 201)
          /\ perms[p] # "none" => perms'[p] # "none"

\* C37: tracking_permissions never holds two rows of one (student, lecturer)
\* pair, and a status is pending, approved or rejected: a request for a pair
\* that has a row is refused and leaves the row, forceAssignPermission
\* updates the row of the pair to approved and adds none, also when two
\* calls for one pair are handled at once
C37_OneRecord == [](C37_Status) /\ [][C37_Step]_vars

\* of two calls for the pair (m2, d2), which had no row when each looked,
\* the first has inserted one; the INSERT of the second has just been refused
C37_Witness ==
    /\ \E r \in emitted.http : r.status = 500 /\ r.req = 2
    /\ perms[<<"m2", "d2">>] \in {"pending", "approved"}
    /\ reqs = {} /\ nEvents = 2
    /\ \A p \in DOMAIN perms : p # <<"m2", "d2">> => perms[p] = InitPerms[p]

(***************************************************************************)
(* Who changes the status of a request                                     *)
(***************************************************************************)
\* the calls of handleRequest that await a query
Handling == {q \in reqs : q.pc \in {"get", "update"}}

C38_Valid ==
    \A q \in Handling :
       /\ q.action \in {"approved", "rejected"}
       /\ q.pc = "update" => q.permission[2] = q.lecturer

C38_Step ==
    /\ \A q \in Handling :
          \* an unknown id and a request of another lecturer end at the query
          /\ Steps(reqs, reqs', q, "get") =>
                /\ perms' = perms
                /\ perms[q.permission] = "none" =>
                      (Answers(q, 404) \/ Answers(q, 500)) /\ ~NowAt2(q, "update")
                /\ perms[q.permission] # "none" /\ q.permission[2] # q.lecturer =>
                      (Answers(q, 403) \/ Answers(q, 500)) /\ ~NowAt2(q, "update")
                /\ perms[q.permission] # "none" /\ q.permission[2] = q.lecturer =>
                      NowAt2(q, "update") \/ Answers(q, 500)
          \* the owner's action becomes the status, whatever the status was
          /\ Steps(reqs, reqs', q, "update") =>
                \/ Answers(q, 500) /\ perms' = perms
                \/ /\ Answers(q, 200)
                   /\ perms' = [perms EXCEPT ![q.permission] = q.action]
    \* a call refused at its validation leaves no handler and no change
    /\ (\E r \in emitted'.http : r.status = 400) => reqs' = reqs /\ perms' = perms
    \* a status is changed to rejected by the owner's handleRequest only
    /\ \A p \in DOMAIN perms :
          perms'[p] # perms[p] /\ perms'[p] = "rejected" =>
             \E q \in Handling : q.permission = p /\ q.lecturer = p[2] /\ q.pc = "update"

\* C38: handleRequest changes the status of a request only for the lecturer
\* the request is addressed to: the call of another lecturer, an unknown
\* permission id and an action other than approved or rejected are refused
\* and leave the status; the owner sets approved or rejected from any status
C38_OwnerOnly == [](C38_Valid) /\ [][C38_Step]_vars

\* the second of two calls was lecturer d1's, who has just rejected the
\* request of m2 addressed to him; the other rows are as they were
C38_Witness ==
    /\ perms[<<"m2", "d1">>] = "rejected"
    /\ \E r \in emitted.http : r.status = 200 /\ r.req = 2
    /\ reqs = {} /\ nEvents = 2
    /\ perms[<<"m1", "d1">>] = "approved"

(***************************************************************************)
(* The two presence maps                                                   *)
(***************************************************************************)
\* C39: the two maps agree on every lecturer (isDosenOnline = isUserOnline),
\* the set kept for an identity is the set of its active connections (for
\* a lecturer in both maps, for a student in the generic one), and no map
\* keeps an entry whose set is empty
C39_Registry ==
    /\ \A d \in Dosen :
          /\ isDosenOnline(d) = isUserOnline(d)
          /\ MapGet(onlineDosenMap, d, {}) = ActiveConns(d)
    /\ \A u \in Dosen \cup Mahasiswa : MapGet(onlineUsersMap, u, {}) = ActiveConns(u)
    /\ DOMAIN onlineDosenMap \subseteq Dosen
    /\ \A u \in DOMAIN onlineUsersMap : onlineUsersMap[u] = ActiveConns(u)
    /\ \A u \in DOMAIN onlineUsersMap : onlineUsersMap[u] # {}
    /\ \A d \in DOMAIN onlineDosenMap : onlineDosenMap[d] # {}

\* one of two connections of a lecturer has closed and a student, whose only
\* connection has closed, has no entry left
C39_Witness ==
    \E s1, s2, s3 \in Sids :
       /\ socks[s1].user = "d1" /\ socks[s2].user = "d1" /\ socks[s3].user = "m1"
       /\ s1 \notin Connected /\ s2 \in Connected /\ s3 \notin Connected
       /\ onlineDosenMap["d1"] = {s2}
       /\ "m1" \notin DOMAIN onlineUsersMap

====
